---- MODULE Spec2Model ----
(***************************************************************************)
(* The server side of the Nexus HTTP protocol layer (nexus/server.go): the *)
(* four endpoints of NewHTTPHandler, the result writer and the failure     *)
(* writer, handling one request at a time against a user handler whose     *)
(* outcome is an input (specification Spec); and a client of these         *)
(* endpoints, its start call and its long poll for a result, whose         *)
(* requests the same handlers answer (specification SpecClient); and the   *)
(* handler serving several requests at the same time, one task for each    *)
(* (specification SpecConcurrent).                                         *)
(*                                                                         *)
(* Strings that the code takes apart (URL paths, the wait query value) are *)
(* sequences of one-character strings; other strings are atoms.  Time is   *)
(* counted in milliseconds.                                                *)
(***************************************************************************)
EXTENDS Integers, Sequences, FiniteSets, TLC

VARIABLES options, pc, req, call, elapsed, reqCanceled, outcome, w, lastCancel, client,
          tasks

vars == <<options, pc, req, call, elapsed, reqCanceled, outcome, w, lastCancel, client, tasks>>

(***************************************************************************)
(* Bounds of the model.                                                    *)
(***************************************************************************)
\* the user handler runs for at most MaxTicks steps of TickLength
MaxTicks == 3

\* the get-result user handler of a client's long poll blocks at most
\* MaxBlocks requests before the result is there, or every request
MaxBlocks == 1

\* the server handles at most MaxInFlight requests at the same time
MaxInFlight == 2

(***************************************************************************)
(* Durations (package time), in milliseconds.                              *)
(***************************************************************************)
Millisecond == 1
Second == 1000 * Millisecond
Minute == 60 * Second
Hour == 60 * Minute
TickLength == Second \div 2

(***************************************************************************)
(* Status codes and header names.                                          *)
(***************************************************************************)
StatusOK == 200
StatusMovedPermanently == 301
StatusCreated == 201
StatusAccepted == 202
StatusBadRequest == 400
StatusUnauthorized == 401
StatusForbidden == 403
StatusNotFound == 404
StatusRequestTimeout == 408
StatusInternalServerError == 500
StatusNotImplemented == 501
StatusUpstreamError == 520
StatusUpstreamTimeout == 521
statusOperationRunning == 412
statusOperationFailed == 424

headerContentType == "Content-Type"
headerOperationState == "Nexus-Operation-State"
contentTypeJSON == "application/json"

OperationStateRunning == "running"
OperationStateSucceeded == "succeeded"
OperationStateFailed == "failed"
OperationStateCanceled == "canceled"

(***************************************************************************)
(* http.ResponseWriter.  code = 0: the status line is not written yet.     *)
(* header is the live header map, sent its snapshot when the status line   *)
(* was written, log the calls made on the writer in order, failed the      *)
(* errors handed to writeFailure.  panicked: the handler goroutine         *)
(* panicked; net/http then drops the connection.                           *)
(***************************************************************************)
NewWriter ==
    [code |-> 0, header |-> {}, sent |-> {}, body |-> <<>>, log |-> <<>>,
     failed |-> <<>>, panicked |-> FALSE]

LogEntry(op, key, val, code, bytes) ==
    [op |-> op, key |-> key, val |-> val, code |-> code, bytes |-> bytes]

\* writer.Header().Set(k, v)
SetHeader(wr, k, v) ==
    [wr EXCEPT !.header = {p \in wr.header : p[1] # k} \cup {<<k, v>>},
               !.log = Append(wr.log, LogEntry("Set", k, v, 0, <<>>))]

\* writer.WriteHeader(code): only the first call writes the status line
WriteHeader(wr, code) ==
    IF wr.code # 0
    THEN [wr EXCEPT !.log = Append(wr.log, LogEntry("WriteHeader", "", "", code, <<>>))]
    ELSE [wr EXCEPT !.code = code, !.sent = wr.header,
                    !.log = Append(wr.log, LogEntry("WriteHeader", "", "", code, <<>>))]

\* writer.Write(bytes): writes the status line 200 first when none was written
Write(wr, bytes) ==
    LET w1 == IF wr.code = 0 THEN [wr EXCEPT !.code = StatusOK, !.sent = wr.header] ELSE wr
    IN [w1 EXCEPT !.body = w1.body \o bytes,
                  !.log = Append(w1.log, LogEntry("Write", "", "", 0, bytes))]

\* io.Copy(writer, reader): an empty reader leads to no Write at all
Copy(wr, bytes) == IF bytes = <<>> THEN wr ELSE Write(wr, bytes)

\* a run-time panic in the handler goroutine
Panic(wr) == [wr EXCEPT !.panicked = TRUE]

\* net/http after the handler returned: a handler that wrote nothing answers 200
FinishRequest(wr) ==
    IF wr.panicked \/ wr.code # 0 THEN wr
    ELSE [wr EXCEPT !.code = StatusOK, !.sent = wr.header]

HeaderGet(h, k) == IF \E p \in h : p[1] = k THEN (CHOOSE p \in h : p[1] = k)[2] ELSE ""

(***************************************************************************)
(* Failure, and its JSON text as a sequence of lexemes.                    *)
(***************************************************************************)
NilFailure == [isNil |-> TRUE, message |-> ""]
Failure(m) == [isNil |-> FALSE, message |-> m]

\* json.Marshal(failure)
MarshalFailure(f) == <<"{", "message", ":", f.message, "}">>

\* json.Marshal(info)
MarshalOperationInfo(info) ==
    IF info.isNil THEN <<"null">>
    ELSE <<"{", "id", ":", info.id, ",", "state", ":", info.state, "}">>

OperationInfo(id, state) == [isNil |-> FALSE, id |-> id, state |-> state]
NilOperationInfo == [isNil |-> TRUE, id |-> "", state |-> ""]

(***************************************************************************)
(* Errors.  An error is the sequence of the errors of its chain, in the    *)
(* order errors.As and errors.Is visit them.                               *)
(***************************************************************************)
HandlerErrorTypeOperationCanceled == "OPERATION_CANCELED"
HandlerErrorTypeOperationFailed == "OPERATION_FAILED"
HandlerErrorTypeInternal == "INTERNAL"
HandlerErrorTypeApplicationError == "APPLICATION_ERROR"
HandlerErrorTypeApplicationTimeout == "APPLICATION_TIMEOUT"
HandlerErrorTypeUnauthenticated == "UNAUTHENTICATED"
HandlerErrorTypeUnauthorized == "UNAUTHORIZED"
HandlerErrorTypeBadRequest == "BAD_REQUEST"
HandlerErrorTypeNotFound == "NOT_FOUND"
HandlerErrorTypeNotImplemented == "NOT_IMPLEMENTED"

UnsuccessfulOperationError(state, msg) ==
    [kind |-> "UnsuccessfulOperationError", state |-> state, type |-> "",
     failure |-> Failure(msg), message |-> msg]

HandlerError(type, failure) ==
    [kind |-> "HandlerError", state |-> "", type |-> type,
     failure |-> failure, message |-> failure.message]

ErrOperationStillRunning ==
    [kind |-> "ErrOperationStillRunning", state |-> "", type |-> "",
     failure |-> NilFailure, message |-> "operation still running"]

\* errors.New(msg), and the wrapper that fmt.Errorf("...: %w", err) puts in front
PlainError(msg) ==
    [kind |-> "error", state |-> "", type |-> "", failure |-> NilFailure, message |-> msg]

Wrap(msg, err) == <<PlainError(msg)>> \o err

NoError == <<>>

newBadRequestError(msg) == <<HandlerError(HandlerErrorTypeBadRequest, Failure(msg))>>

\* errors.As(err, &target): the index of the first error of the chain of that
\* type, 0 when there is none
ErrorsAs(err, kind) ==
    IF \E i \in 1..Len(err) : err[i].kind = kind
    THEN CHOOSE i \in 1..Len(err) : err[i].kind = kind /\ \A j \in 1..(i - 1) : err[j].kind # kind
    ELSE 0

\* errors.Is(err, target)
ErrorsIs(err, target) == \E i \in 1..Len(err) : err[i] = target

(***************************************************************************)
(* Streams and handler results.  A result is what the user handler hands   *)
(* back as a value: either a *Stream, or another value together with what  *)
(* the configured codec makes of it (a stream, or an error).               *)
(***************************************************************************)
Stream(header, body) == [header |-> header, body |-> body]

StreamValue(header, body) ==
    [isStream |-> TRUE, stream |-> Stream(header, body), serErr |-> NoError]

EncodableValue(header, body) ==
    [isStream |-> FALSE, stream |-> Stream(header, body), serErr |-> NoError]

UnencodableValue(err) ==
    [isStream |-> FALSE, stream |-> Stream({}, <<>>), serErr |-> err]

\* a value for which the codec returns an error together with the stream it
\* had begun
PartlyEncodedValue(header, body, err) ==
    [isStream |-> FALSE, stream |-> Stream(header, body), serErr |-> err]

\* h.options.Codec.Serialize(result)
CodecSerialize(result) == [stream |-> result.stream, err |-> result.serErr]

\* for k, v := range stream.Header { header.Set(k, v) }
RECURSIVE CopyHeaders(_, _)
CopyHeaders(wr, h) ==
    IF h = {} THEN wr
    ELSE LET p == CHOOSE q \in h : TRUE
         IN CopyHeaders(SetHeader(wr, p[1], p[2]), h \ {p})

(***************************************************************************)
(* baseHTTPHandler.writeFailure                                            *)
(***************************************************************************)
\* the switch with the statuses of UNAUTHORIZED and UNAUTHENTICATED exchanged
HandlerErrorStatusCodeSwapped(type) ==
    CASE type = HandlerErrorTypeOperationCanceled -> statusOperationFailed
      [] type = HandlerErrorTypeApplicationTimeout -> StatusUpstreamTimeout
      [] type = HandlerErrorTypeApplicationError -> StatusUpstreamError
      [] type = HandlerErrorTypeBadRequest -> StatusBadRequest
      [] type = HandlerErrorTypeUnauthorized -> StatusUnauthorized
      [] type = HandlerErrorTypeUnauthenticated -> StatusForbidden
      [] type = HandlerErrorTypeNotFound -> StatusNotFound
      [] type = HandlerErrorTypeNotImplemented -> StatusNotImplemented
      [] type = HandlerErrorTypeInternal -> StatusInternalServerError
      [] OTHER -> StatusInternalServerError

\* the switch on handlerError.Type; statusCode starts as 500 and the default
\* branch leaves it there
HandlerErrorStatusCode(type) ==
    CASE type = HandlerErrorTypeOperationCanceled -> statusOperationFailed
      [] type = HandlerErrorTypeApplicationTimeout -> StatusUpstreamTimeout
      [] type = HandlerErrorTypeApplicationError -> StatusUpstreamError
      [] type = HandlerErrorTypeBadRequest -> StatusBadRequest
      [] type = HandlerErrorTypeUnauthorized -> StatusForbidden
      [] type = HandlerErrorTypeUnauthenticated -> StatusUnauthorized
      [] type = HandlerErrorTypeNotFound -> StatusNotFound
      [] type = HandlerErrorTypeNotImplemented -> StatusNotImplemented
      [] type = HandlerErrorTypeInternal -> StatusInternalServerError
      [] OTHER -> StatusInternalServerError

\* the header the switch sets
HandlerErrorHeader(wr, type) ==
    IF type = HandlerErrorTypeOperationCanceled
    THEN SetHeader(wr, headerOperationState, OperationStateCanceled)
    ELSE wr

\* a state check that knows failed only, and one that lets every state pass
IsFailedOnly(state) == state = OperationStateFailed

IsAnyState(state) == TRUE

\* the state check of an UnsuccessfulOperationError
IsTerminalUnsuccessful(state) ==
    state = OperationStateFailed \/ state = OperationStateCanceled

\* a handler that writes the first message of the chain instead
LeakingFailure(err) == Failure(err[1].message)

\* the failure of an error that is neither of the two error types
GenericFailure(err) == Failure("internal server error")

\* a failure writer that leaves the content type of the body unset
WriteFailureBodyUntyped(wr, failure, statusCode) ==
    LET bytes == IF failure.isNil THEN <<>> ELSE MarshalFailure(failure)
    IN Write(WriteHeader(wr, statusCode), bytes)

\* a failure writer that writes the status line ahead of the content type
WriteFailureBodyStatusFirst(wr, failure, statusCode) ==
    LET bytes == IF failure.isNil THEN <<>> ELSE MarshalFailure(failure)
        w1 == WriteHeader(wr, statusCode)
        w2 == IF failure.isNil THEN w1 ELSE SetHeader(w1, headerContentType, contentTypeJSON)
    IN Write(w2, bytes)

\* lines 238-253: the content type, the status line, the body
WriteFailureBody(wr, failure, statusCode) ==
    LET bytes == IF failure.isNil THEN <<>> ELSE MarshalFailure(failure)
        w1 == IF failure.isNil THEN wr ELSE SetHeader(wr, headerContentType, contentTypeJSON)
    IN Write(WriteHeader(w1, statusCode), bytes)

\* a failure writer that looks for a HandlerError in the chain first
writeFailureHandlerErrorFirst(wr, err) ==
    LET w0 == [wr EXCEPT !.failed = Append(wr.failed, err)]
        u == ErrorsAs(err, "UnsuccessfulOperationError")
        h == ErrorsAs(err, "HandlerError")
    IN IF h # 0
       THEN WriteFailureBody(HandlerErrorHeader(w0, err[h].type), err[h].failure,
                             HandlerErrorStatusCode(err[h].type))
       ELSE IF u # 0
            THEN IF IsTerminalUnsuccessful(err[u].state)
                 THEN WriteFailureBody(SetHeader(w0, headerOperationState, err[u].state),
                                       err[u].failure, statusOperationFailed)
                 ELSE WriteHeader(w0, StatusInternalServerError)
            ELSE WriteFailureBody(w0, GenericFailure(err), StatusInternalServerError)

\* a failure writer that reports every unsuccessful operation as failed
writeFailureAlwaysFailed(wr, err) ==
    LET w0 == [wr EXCEPT !.failed = Append(wr.failed, err)]
        u == ErrorsAs(err, "UnsuccessfulOperationError")
        h == ErrorsAs(err, "HandlerError")
    IN IF u # 0
       THEN IF IsTerminalUnsuccessful(err[u].state)
            THEN WriteFailureBody(SetHeader(w0, headerOperationState, OperationStateFailed),
                                  err[u].failure, statusOperationFailed)
            ELSE WriteHeader(w0, StatusInternalServerError)
       ELSE IF h # 0
            THEN WriteFailureBody(HandlerErrorHeader(w0, err[h].type), err[h].failure,
                                  HandlerErrorStatusCode(err[h].type))
            ELSE WriteFailureBody(w0, GenericFailure(err), StatusInternalServerError)

writeFailure(wr, err) ==
    LET w0 == [wr EXCEPT !.failed = Append(wr.failed, err)]
        u == ErrorsAs(err, "UnsuccessfulOperationError")
        h == ErrorsAs(err, "HandlerError")
    IN IF u # 0
       THEN IF IsTerminalUnsuccessful(err[u].state)
            THEN WriteFailureBody(SetHeader(w0, headerOperationState, err[u].state),
                                  err[u].failure, statusOperationFailed)
            ELSE WriteHeader(w0, StatusInternalServerError)
       ELSE IF h # 0
            THEN WriteFailureBody(HandlerErrorHeader(w0, err[h].type), err[h].failure,
                                  HandlerErrorStatusCode(err[h].type))
            ELSE WriteFailureBody(w0, GenericFailure(err), StatusInternalServerError)

(***************************************************************************)
(* httpHandler.writeResult                                                 *)
(***************************************************************************)
\* line 164 reads stream.Reader while the local stream is still the nil
\* *Stream it was declared as (it is assigned at line 169): a nil pointer
\* dereference, which is a run-time panic
StreamPassThrough(wr, s) == Panic(wr)

\* lines 178-184
WriteStream(wr, stream) == Copy(CopyHeaders(wr, stream.header), stream.body)

\* a result writer that copies the headers of the codec's stream before it
\* looks at the codec's error
writeResultHeadersFirst(wr, result) ==
    IF result.isStream
    THEN StreamPassThrough(wr, result.stream)
    ELSE LET ser == CodecSerialize(result)
             w1 == CopyHeaders(wr, ser.stream.header)
         IN IF ser.err # NoError
            THEN writeFailure(w1, Wrap("failed to serialize handler result", ser.err))
            ELSE Copy(w1, ser.stream.body)

writeResult(wr, result) ==
    IF result.isStream
    THEN StreamPassThrough(wr, result.stream)
    ELSE LET ser == CodecSerialize(result)
         IN IF ser.err # NoError
            THEN writeFailure(wr, Wrap("failed to serialize handler result", ser.err))
            ELSE WriteStream(wr, ser.stream)

(***************************************************************************)
(* OperationResponse.applyToHTTPResponse                                   *)
(***************************************************************************)
OperationResponseSync(value) == [async |-> FALSE, value |-> value, operationID |-> ""]

OperationResponseAsync(id) ==
    [async |-> TRUE, value |-> EncodableValue({}, <<>>), operationID |-> id]

\* the state of the OperationInfo of an asynchronous start
AsyncInfoState == OperationStateRunning

\* the asynchronous response without its WriteHeader call
AsyncApplyWithoutStatus(wr, r) ==
    LET bytes == MarshalOperationInfo(OperationInfo(r.operationID, AsyncInfoState))
    IN Write(SetHeader(wr, headerContentType, contentTypeJSON), bytes)

AsyncApplyToHTTPResponse(wr, r) ==
    LET bytes == MarshalOperationInfo(OperationInfo(r.operationID, AsyncInfoState))
    IN Write(WriteHeader(SetHeader(wr, headerContentType, contentTypeJSON), StatusCreated), bytes)

applyToHTTPResponse(wr, r) ==
    IF r.async THEN AsyncApplyToHTTPResponse(wr, r) ELSE writeResult(wr, r.value)

(***************************************************************************)
(* Package path and url.PathUnescape, on sequences of characters.          *)
(***************************************************************************)
Slash == "/"

\* The operators on paths below are written as functions of their argument
\* where they walk through it, so that the argument is computed once.

\* strings.LastIndex(p, "/") + 1: the length of the part up to the last slash
LastSlash(p) ==
    IF \E i \in 1..Len(p) : p[i] = Slash
    THEN CHOOSE i \in 1..Len(p) : p[i] = Slash /\ \A j \in (i + 1)..Len(p) : p[j] # Slash
    ELSE 0

\* path.Split(p): the directory with its trailing slash, and the file
pathSplit(p) ==
    LET split[q \in Seq(STRING)] ==
            LET i == LastSlash(q)
            IN [dir |-> SubSeq(q, 1, i), file |-> SubSeq(q, i + 1, Len(q))]
    IN split[p]

\* the elements of p between its slashes, empty ones included
SplitSlash(p) ==
    LET split[q \in Seq(STRING)] ==
            IF \A i \in 1..Len(q) : q[i] # Slash THEN <<q>>
            ELSE LET i == CHOOSE k \in 1..Len(q) :
                              q[k] = Slash /\ \A j \in 1..(k - 1) : q[j] # Slash
                 IN <<SubSeq(q, 1, i - 1)>> \o split[SubSeq(q, i + 1, Len(q))]
    IN split[p]

JoinSlash(elems) ==
    LET join[e \in Seq(Seq(STRING))] ==
            IF e = <<>> THEN <<>>
            ELSE IF Len(e) = 1 THEN e[1]
            ELSE e[1] \o <<Slash>> \o join[Tail(e)]
    IN join[elems]

\* the element stack of path.Clean: "" and "." are dropped, ".." removes the
\* element before it (at the root of a rooted path it is dropped)
CleanElems(elems, out, rooted) ==
    LET clean[es \in Seq(Seq(STRING)), o \in Seq(Seq(STRING))] ==
            IF es = <<>> THEN o
            ELSE LET e == Head(es)
                     rest == Tail(es)
                 IN IF e = <<>> \/ e = <<".">> THEN clean[rest, o]
                    ELSE IF e = <<".", ".">>
                         THEN IF o # <<>> /\ o[Len(o)] # <<".", ".">>
                              THEN clean[rest, SubSeq(o, 1, Len(o) - 1)]
                              ELSE IF rooted THEN clean[rest, o]
                                   ELSE clean[rest, Append(o, e)]
                         ELSE clean[rest, Append(o, e)]
    IN clean[elems, out]

\* path.Clean(p)
pathClean(p) ==
    LET clean[q \in Seq(STRING)] ==
            IF q = <<>> THEN <<".">>
            ELSE LET rooted == q[1] = Slash
                     body == JoinSlash(CleanElems(SplitSlash(q), <<>>, rooted))
                 IN IF rooted THEN <<Slash>> \o body
                    ELSE IF body = <<>> THEN <<".">> ELSE body
    IN clean[p]

\* path.Dir(p)
pathDir(p) == pathClean(pathSplit(p).dir)

\* p without its trailing slashes
StripTrailingSlashes(p) ==
    LET strip[q \in Seq(STRING)] ==
            IF q # <<>> /\ q[Len(q)] = Slash THEN strip[SubSeq(q, 1, Len(q) - 1)]
            ELSE q
    IN strip[p]

\* path.Base(p)
pathBase(p) ==
    LET base[q \in Seq(STRING)] ==
            LET b == pathSplit(q).file
            IN IF b = <<>> THEN <<Slash>> ELSE b
    IN IF p = <<>> THEN <<".">> ELSE base[StripTrailingSlashes(p)]

HexDigits == <<"0", "1", "2", "3", "4", "5", "6", "7", "8", "9", "A", "B", "C", "D", "E", "F">>
HexDigitsLower == <<"0", "1", "2", "3", "4", "5", "6", "7", "8", "9", "a", "b", "c", "d", "e", "f">>

ishex(c) == \E i \in 1..16 : HexDigits[i] = c \/ HexDigitsLower[i] = c

unhex(c) == (CHOOSE i \in 1..16 : HexDigits[i] = c \/ HexDigitsLower[i] = c) - 1

\* the character of a byte, for the bytes the escaped paths of the model hold
CharOfByte(n) ==
    CASE n = 32 -> " "
      [] n = 37 -> "%"
      [] n = 46 -> "."
      [] n = 47 -> "/"
      [] OTHER -> "?"

\* url.PathUnescape(s): ok is false for a % that two hex digits do not follow
PathUnescape(s) ==
    LET unescape[t \in Seq(STRING)] ==
            IF t = <<>> THEN [ok |-> TRUE, s |-> <<>>]
            ELSE IF t[1] = "%"
                 THEN IF Len(t) < 3 \/ ~ishex(t[2]) \/ ~ishex(t[3])
                      THEN [ok |-> FALSE, s |-> <<>>]
                      ELSE LET r == unescape[SubSeq(t, 4, Len(t))]
                           IN [ok |-> r.ok,
                               s |-> <<CharOfByte(16 * unhex(t[2]) + unhex(t[3]))>> \o r.s]
                 ELSE LET r == unescape[Tail(t)]
                      IN [ok |-> r.ok, s |-> <<t[1]>> \o r.s]
    IN unescape[s]

(***************************************************************************)
(* time.ParseDuration, for whole numbers and the units ms, s, m and h.     *)
(***************************************************************************)
Digits == <<"0", "1", "2", "3", "4", "5", "6", "7", "8", "9">>

IsDigit(c) == \E i \in 1..10 : Digits[i] = c

DigitValue(c) == (CHOOSE i \in 1..10 : Digits[i] = c) - 1

\* the number of leading characters of s that are (digit = TRUE) or are not digits
LeadingRun(s, digit) ==
    LET run[t \in Seq(STRING)] ==
            IF t = <<>> \/ IsDigit(t[1]) # digit THEN 0 ELSE 1 + run[Tail(t)]
    IN run[s]

RECURSIVE DecimalValue(_, _)
DecimalValue(s, acc) ==
    IF s = <<>> THEN acc ELSE DecimalValue(Tail(s), 10 * acc + DigitValue(s[1]))

IsUnit(u) == u \in {<<"m", "s">>, <<"s">>, <<"m">>, <<"h">>}

unitMap(u) ==
    CASE u = <<"m", "s">> -> Millisecond
      [] u = <<"s">> -> Second
      [] u = <<"m">> -> Minute
      [] u = <<"h">> -> Hour

\* the loop over the groups of a number and a unit
ParseGroups(s, d) ==
    LET groups[t \in Seq(STRING), sum \in Int] ==
            IF t = <<>> THEN [ok |-> TRUE, d |-> sum]
            ELSE LET n == LeadingRun(t, TRUE)
                     rest == SubSeq(t, n + 1, Len(t))
                     m == LeadingRun(rest, FALSE)
                     unit == SubSeq(rest, 1, m)
                 IN IF n = 0 \/ m = 0 \/ ~IsUnit(unit) THEN [ok |-> FALSE, d |-> 0]
                    ELSE groups[SubSeq(rest, m + 1, Len(rest)),
                                sum + DecimalValue(SubSeq(t, 1, n), 0) * unitMap(unit)]
    IN groups[s, d]

\* time.ParseDuration(s)
ParseDuration(s) ==
    LET neg == s # <<>> /\ s[1] = "-"
        t == IF s # <<>> /\ (s[1] = "-" \/ s[1] = "+") THEN Tail(s) ELSE s
    IN IF s = <<>> THEN [ok |-> FALSE, d |-> 0]
       ELSE IF t = <<"0">> THEN [ok |-> TRUE, d |-> 0]
       ELSE IF t = <<>> THEN [ok |-> FALSE, d |-> 0]
       ELSE LET r == ParseGroups(t, 0)
            IN [ok |-> r.ok, d |-> IF neg THEN 0 - r.d ELSE r.d]

(***************************************************************************)
(* NewHTTPHandler and the router.                                          *)
(***************************************************************************)
NewHTTPHandler(opts) ==
    [GetResultTimeout |-> IF opts.GetResultTimeout = 0 THEN Minute ELSE opts.GetResultTimeout]

\* the path elements after the leading slash; <<>> when the path is not rooted
\* or an element is empty (every route variable matches [^/]+)
RouteElems(path) ==
    LET elems[e \in Seq(Seq(STRING))] ==
            IF Len(e) >= 2 /\ e[1] = <<>> /\ \A i \in 2..Len(e) : e[i] # <<>>
            THEN Tail(e) ELSE <<>>
    IN elems[SplitSlash(path)]

\* the router's canonical form of a request path: path.Clean, with the
\* trailing slash put back
cleanPath(p) ==
    IF p = <<>> THEN <<Slash>>
    ELSE LET q == IF p[1] # Slash THEN <<Slash>> \o p ELSE p
             np == pathClean(q)
         IN IF q[Len(q)] = Slash /\ np # <<Slash>> THEN np \o <<Slash>> ELSE np

\* the routes of lines 420-423, matched against the escaped path (line 419);
\* the router first redirects a request whose path is not in canonical form
Route(r) ==
    LET e == RouteElems(r.path)
    IN CASE cleanPath(r.path) # r.path -> "redirect"
         [] r.method = "POST" /\ Len(e) = 1 -> "startOperation"
         [] r.method = "GET" /\ Len(e) = 2 -> "getOperationInfo"
         [] r.method = "GET" /\ Len(e) = 3 /\ e[3] = <<"r", "e", "s", "u", "l", "t">>
              -> "getOperationResult"
         [] r.method = "POST" /\ Len(e) = 3 /\ e[3] = <<"c", "a", "n", "c", "e", "l">>
              -> "cancelOperation"
         [] OTHER -> "none"

(***************************************************************************)
(* The handlers up to the call of the user handler: what each decodes from *)
(* the request, and the context and options it hands over.  fail is the    *)
(* error of an early return, NoError when the user handler is called.      *)
(***************************************************************************)
UserCall(method, operation, operationID, r, wait, hasDeadline, timeout) ==
    [method |-> method, operation |-> operation, operationID |-> operationID,
     requestID |-> r.requestID, wait |-> wait,
     hasDeadline |-> hasDeadline, timeout |-> timeout]

NoCall == UserCall("", <<>>, <<>>, [requestID |-> ""], 0, FALSE, 0)

Early(err) == [fail |-> err, call |-> NoCall]
Calls(c) == [fail |-> NoError, call |-> c]

ParsePathError == newBadRequestError("failed to parse URL path")

\* a handler that hands over no request ID
startOperationDecodeWithoutRequestID(r) ==
    LET operation == PathUnescape(pathBase(r.path))
    IN IF ~operation.ok THEN Early(ParsePathError)
       ELSE Calls(UserCall("StartOperation", operation.s, <<>>,
                           [r EXCEPT !.requestID = ""], 0, FALSE, 0))

\* lines 257-266
startOperationDecode(r) ==
    LET operation == PathUnescape(pathBase(r.path))
    IN IF ~operation.ok THEN Early(ParsePathError)
       ELSE Calls(UserCall("StartOperation", operation.s, <<>>, r, 0, FALSE, 0))

\* the margin of the client's wait over its deadline
getResultContextPadding == Second

\* a context timeout taken from the wait of the request
PaddedWaitTimeout(waitDuration) == waitDuration + getResultContextPadding

\* the context of a request with a wait query parameter (lines 313-314)
GetResultContextTimeout(waitDuration) == options.GetResultTimeout

\* a handler that derives the context with the timeout for long polls only
getOperationResultDecodeLongPollOnly(r) ==
    LET sp == pathSplit(pathDir(r.path))
        operationID == PathUnescape(sp.file)
        operation == PathUnescape(pathBase(sp.dir))
        waitDuration == ParseDuration(r.wait)
    IN IF ~operationID.ok \/ ~operation.ok THEN Early(ParsePathError)
       ELSE IF r.wait = <<>>
            THEN Calls(UserCall("GetOperationResult", operation.s, operationID.s, r, 0, FALSE, 0))
            ELSE IF ~waitDuration.ok
                 THEN Early(newBadRequestError("invalid wait query parameter"))
                 ELSE Calls(UserCall("GetOperationResult", operation.s, operationID.s, r,
                                     waitDuration.d, waitDuration.d > 0,
                                     IF waitDuration.d > 0
                                     THEN GetResultContextTimeout(waitDuration.d) ELSE 0))

\* a handler that treats a wait it cannot parse as no wait
getOperationResultDecodeLenient(r) ==
    LET sp == pathSplit(pathDir(r.path))
        operationID == PathUnescape(sp.file)
        operation == PathUnescape(pathBase(sp.dir))
        waitDuration == ParseDuration(r.wait)
    IN IF ~operationID.ok \/ ~operation.ok THEN Early(ParsePathError)
       ELSE IF r.wait = <<>> \/ ~waitDuration.ok
            THEN Calls(UserCall("GetOperationResult", operation.s, operationID.s, r, 0, FALSE, 0))
            ELSE Calls(UserCall("GetOperationResult", operation.s, operationID.s, r,
                                waitDuration.d, TRUE,
                                GetResultContextTimeout(waitDuration.d)))

\* lines 290-316
getOperationResultDecode(r) ==
    LET sp == pathSplit(pathDir(r.path))
        operationID == PathUnescape(sp.file)
        operation == PathUnescape(pathBase(sp.dir))
        waitDuration == ParseDuration(r.wait)
    IN IF ~operationID.ok \/ ~operation.ok THEN Early(ParsePathError)
       ELSE IF r.wait = <<>>
            THEN Calls(UserCall("GetOperationResult", operation.s, operationID.s, r, 0, FALSE, 0))
            ELSE IF ~waitDuration.ok
                 THEN Early(newBadRequestError("invalid wait query parameter"))
                 ELSE Calls(UserCall("GetOperationResult", operation.s, operationID.s, r,
                                     waitDuration.d, TRUE,
                                     GetResultContextTimeout(waitDuration.d)))

\* lines 333-344
getOperationInfoDecode(r) ==
    LET sp == pathSplit(r.path)
        operationID == PathUnescape(sp.file)
        operation == PathUnescape(pathBase(sp.dir))
    IN IF ~operationID.ok \/ ~operation.ok THEN Early(ParsePathError)
       ELSE Calls(UserCall("GetOperationInfo", operation.s, operationID.s, r, 0, FALSE, 0))

\* lines 365-376
cancelOperationDecode(r) ==
    LET sp == pathSplit(pathDir(r.path))
        operationID == PathUnescape(sp.file)
        operation == PathUnescape(pathBase(sp.dir))
    IN IF ~operationID.ok \/ ~operation.ok THEN Early(ParsePathError)
       ELSE Calls(UserCall("CancelOperation", operation.s, operationID.s, r, 0, FALSE, 0))

\* ctx.Err() != nil for a context with the timeout of the handler that was
\* derived from context.Background(): only its deadline ends it
CtxErrOfBackground(c, now, canceled) == c.hasDeadline /\ now >= c.timeout

\* ctx.Err() != nil for the context handed to the user handler: the request
\* context was cancelled, or the deadline of the derived context has passed
CtxErr(c, now, canceled) == canceled \/ (c.hasDeadline /\ now >= c.timeout)

(***************************************************************************)
(* The handlers from the return of the user handler on.                    *)
(***************************************************************************)
\* lines 281-285
startOperationReturn(wr, out) ==
    IF out.err # NoError THEN writeFailure(wr, out.err)
    ELSE applyToHTTPResponse(wr, out.response)

\* the handler with the still-running check ahead of the context check
getOperationResultStillRunningFirst(wr, wait, ctxErr, out) ==
    IF out.err # NoError
    THEN IF ErrorsIs(out.err, ErrOperationStillRunning)
         THEN WriteHeader(wr, statusOperationRunning)
         ELSE IF wait > 0 /\ ctxErr THEN WriteHeader(wr, StatusRequestTimeout)
              ELSE writeFailure(wr, out.err)
    ELSE writeResult(wr, out.value)

\* the handler without the context check
getOperationResultWithoutTimeout(wr, wait, ctxErr, out) ==
    IF out.err # NoError
    THEN IF ErrorsIs(out.err, ErrOperationStillRunning)
         THEN WriteHeader(wr, statusOperationRunning)
         ELSE writeFailure(wr, out.err)
    ELSE writeResult(wr, out.value)

\* lines 319-329
getOperationResultReturn(wr, wait, ctxErr, out) ==
    IF out.err # NoError
    THEN IF wait > 0 /\ ctxErr THEN WriteHeader(wr, StatusRequestTimeout)
         ELSE IF ErrorsIs(out.err, ErrOperationStillRunning)
              THEN WriteHeader(wr, statusOperationRunning)
              ELSE writeFailure(wr, out.err)
    ELSE writeResult(wr, out.value)

\* a handler that goes on to write the operation info after a failure
getOperationInfoWithoutReturn(wr, out) ==
    LET w1 == IF out.err # NoError THEN writeFailure(wr, out.err) ELSE wr
    IN Write(SetHeader(w1, headerContentType, contentTypeJSON), MarshalOperationInfo(out.info))

\* lines 347-360
getOperationInfoReturn(wr, out) ==
    IF out.err # NoError THEN writeFailure(wr, out.err)
    ELSE Write(SetHeader(wr, headerContentType, contentTypeJSON), MarshalOperationInfo(out.info))

\* a handler that answers a repeated cancel of the same operation 409
cancelOperationOnce(wr, out) ==
    IF out.err # NoError THEN writeFailure(wr, out.err)
    ELSE IF lastCancel.set /\ lastCancel.operation = call.operation
              /\ lastCancel.operationID = call.operationID
         THEN WriteHeader(wr, 409)
         ELSE WriteHeader(wr, StatusAccepted)

\* lines 378-383
cancelOperationReturn(wr, out) ==
    IF out.err # NoError THEN writeFailure(wr, out.err)
    ELSE WriteHeader(wr, StatusAccepted)

(***************************************************************************)
(* The requests of the model: the four requests a client sends for an      *)
(* operation name and an operation ID, each a path element of its own.     *)
(***************************************************************************)
\* url.PathEscape(s), for the characters of the model's names
RECURSIVE PathEscape(_)
PathEscape(s) ==
    IF s = <<>> THEN <<>>
    ELSE (CASE s[1] = "/" -> <<"%", "2", "F">>
            [] s[1] = " " -> <<"%", "2", "0">>
            [] s[1] = "%" -> <<"%", "2", "5">>
            [] OTHER -> <<s[1]>>) \o PathEscape(Tail(s))

\* the (operation name, operation ID) pairs of the model
Handles ==
    {[operation |-> <<"f", "o", "o">>, id |-> <<"i", "d">>],
     [operation |-> <<"f", "/", "o">>, id |-> <<"a", "/", "s">>],
     [operation |-> <<"f", "o", "o">>, id |-> <<".", ".">>],
     [operation |-> <<".">>, id |-> <<"i", "d">>]}

OperationNames == {h.operation : h \in Handles}

\* the values of the wait query parameter; <<>>: the parameter is absent
WaitStrings ==
    {<<>>, <<"0", "s">>, <<"5", "0", "0", "m", "s">>, <<"2", "s">>, <<"-", "1", "s">>,
     <<"1", "x">>, <<"5">>}

RequestIDs == {"", "rid"}

\* wait: request.URL.Query().Get("wait"); query: the names of the query
\* parameters in the URL, "wait" among them also when its value is empty
Request(method, path, wait, requestID) ==
    [method |-> method, path |-> path, wait |-> wait, requestID |-> requestID,
     query |-> IF wait = <<>> THEN {} ELSE {"wait"}]

\* the request r with "?wait=" in its URL
WithEmptyWait(r) == [r EXCEPT !.wait = <<>>, !.query = {"wait"}]

NoRequest == Request("", <<>>, <<>>, "")

OperationPath(name) == <<Slash>> \o PathEscape(name)
HandlePath(name, id) == OperationPath(name) \o <<Slash>> \o PathEscape(id)

StartRequests ==
    {Request("POST", OperationPath(n), <<>>, rid) : n \in OperationNames, rid \in RequestIDs}

GetInfoRequests ==
    {Request("GET", HandlePath(h.operation, h.id), <<>>, "") : h \in Handles}

ResultPath(h) == HandlePath(h.operation, h.id) \o <<"/", "r", "e", "s", "u", "l", "t">>
CancelPath(h) == HandlePath(h.operation, h.id) \o <<"/", "c", "a", "n", "c", "e", "l">>

GetResultRequests ==
    {Request("GET", ResultPath(h), wt, "") : h \in Handles, wt \in WaitStrings}
    \cup {WithEmptyWait(Request("GET", ResultPath(h), <<>>, "")) : h \in Handles}

CancelRequests ==
    {Request("POST", CancelPath(h), <<>>, "") : h \in Handles}

Requests == StartRequests \cup GetInfoRequests \cup GetResultRequests \cup CancelRequests

\* the GetResultTimeout values a handler is constructed with; 0: left unset
ConfiguredTimeouts == {0, Second}

(***************************************************************************)
(* What a user handler can return.                                         *)
(***************************************************************************)
OperationStates ==
    {OperationStateRunning, OperationStateSucceeded, OperationStateFailed,
     OperationStateCanceled, "paused"}

HandlerErrorTypes ==
    {HandlerErrorTypeOperationCanceled, HandlerErrorTypeOperationFailed,
     HandlerErrorTypeInternal, HandlerErrorTypeApplicationError,
     HandlerErrorTypeApplicationTimeout, HandlerErrorTypeUnauthenticated,
     HandlerErrorTypeUnauthorized, HandlerErrorTypeBadRequest,
     HandlerErrorTypeNotFound, HandlerErrorTypeNotImplemented, "", "TEAPOT"}

SingleErrors ==
    {UnsuccessfulOperationError(st, "intentional") : st \in OperationStates}
    \cup {HandlerError(t, Failure("foo")) : t \in HandlerErrorTypes}
    \cup {HandlerError(t, NilFailure) :
            t \in {HandlerErrorTypeNotFound, HandlerErrorTypeOperationCanceled, ""}}
    \cup {ErrOperationStillRunning, PlainError("boom")}

WrappedErrors ==
    {Wrap("wrapped boom", <<e>>) :
        e \in {UnsuccessfulOperationError(OperationStateFailed, "intentional"),
               UnsuccessfulOperationError(OperationStateRunning, "intentional"),
               HandlerError(HandlerErrorTypeNotFound, Failure("foo")),
               ErrOperationStillRunning}}

\* errors.Join of a handler error and an unsuccessful operation error
JoinedErrors ==
    {<<HandlerError(HandlerErrorTypeNotFound, Failure("foo")),
       UnsuccessfulOperationError(OperationStateCanceled, "intentional")>>,
     <<UnsuccessfulOperationError(OperationStateCanceled, "intentional"),
       HandlerError(HandlerErrorTypeNotFound, Failure("foo"))>>}

Errors == {<<e>> : e \in SingleErrors} \cup WrappedErrors \cup JoinedErrors

Values ==
    {StreamValue({<<headerContentType, "application/octet-stream">>, <<"Content-Length", "2">>},
                 <<"0x00", "0x01">>),
     StreamValue({}, <<>>),
     EncodableValue({<<headerContentType, contentTypeJSON>>}, <<"success">>),
     UnencodableValue(<<PlainError("unsupported type")>>),
     UnencodableValue(newBadRequestError("bad value")),
     PartlyEncodedValue({<<headerContentType, "text/plain">>, <<"Content-Length", "7">>},
                        <<"partial">>, <<PlainError("unsupported type")>>)}

AsyncOperationIDs == {"a/sync"}

OperationInfos ==
    {OperationInfo("a/sync", OperationStateRunning),
     OperationInfo("a/sync", OperationStateCanceled)}

Outcome(response, value, info, err) ==
    [response |-> response, value |-> value, info |-> info, err |-> err]

NoValue == EncodableValue({}, <<>>)
NoResponse == OperationResponseSync(NoValue)
NoOutcome == Outcome(NoResponse, NoValue, NilOperationInfo, NoError)
Failed(err) == Outcome(NoResponse, NoValue, NilOperationInfo, err)

StartOutcomes ==
    {Outcome(OperationResponseSync(v), NoValue, NilOperationInfo, NoError) : v \in Values}
    \cup {Outcome(OperationResponseAsync(id), NoValue, NilOperationInfo, NoError) :
            id \in AsyncOperationIDs}
    \cup {Failed(e) : e \in Errors}

GetResultOutcomes ==
    {Outcome(NoResponse, v, NilOperationInfo, NoError) : v \in Values}
    \cup {Failed(e) : e \in Errors}

GetInfoOutcomes ==
    {Outcome(NoResponse, NoValue, info, NoError) : info \in OperationInfos}
    \cup {Failed(e) : e \in Errors}
    \cup {Outcome(NoResponse, NoValue, info, <<HandlerError(HandlerErrorTypeNotFound, NilFailure)>>) :
            info \in OperationInfos}

CancelOutcomes == {NoOutcome} \cup {Failed(e) : e \in Errors}

(***************************************************************************)
(* The client: StartOperation, ExecuteOperation and a handle's GetResult.  *)
(* The requests it builds, its reading of a response and its long poll     *)
(* follow the description of the client; its get-result user handler is    *)
(* asyncWithResultHandler of get_result_test.go.                           *)
(***************************************************************************)
\* the per-request cap of a long poll on the server side
getResultMaxTimeout == 10 * Second

\* a context without a deadline
NoDeadline == 0 - 1

\* timesToBlock of a handler whose operation stays running
Forever == 1000

Min(a, b) == IF a <= b THEN a ELSE b

\* strconv: the decimal digits of n >= 0
RECURSIVE FormatInt(_)
FormatInt(n) ==
    IF n < 10 THEN <<Digits[n + 1]>>
    ELSE FormatInt(n \div 10) \o <<Digits[(n % 10) + 1]>>

\* the value of the wait query parameter for the duration d: milliseconds
FormatWait(d) == FormatInt(d \div Millisecond) \o <<"m", "s">>

\* a freshly generated UUIDv4
NewUUID == "6ba7b810-9dad-41d1-80b4-00c04fd430c8"

\* the effective request ID of a start call
EffectiveRequestID(requestID, header) ==
    IF requestID # "" THEN requestID
    ELSE IF header # "" THEN header
    ELSE NewUUID

\* what a client call returns: kind "Successful", "Pending" or the kind of
\* an error
ClientResult(kind, state, id, message) ==
    [kind |-> kind, state |-> state, id |-> id, message |-> message]

NoResult == ClientResult("", "", "", "")

\* the message of the Failure in a response body, "" when there is none
ParseFailure(body) ==
    IF Len(body) = 5 /\ body[1] = "{" /\ body[2] = "message" THEN body[4] ELSE ""

\* the kind of HandlerError a status stands for
StatusHandlerErrorType(code) ==
    CASE code = StatusBadRequest -> HandlerErrorTypeBadRequest
      [] code = StatusUnauthorized -> HandlerErrorTypeUnauthenticated
      [] code = StatusForbidden -> HandlerErrorTypeUnauthorized
      [] code = StatusNotFound -> HandlerErrorTypeNotFound
      [] code = StatusNotImplemented -> HandlerErrorTypeNotImplemented
      [] code = StatusUpstreamError -> HandlerErrorTypeApplicationError
      [] code = StatusUpstreamTimeout -> HandlerErrorTypeApplicationTimeout
      [] OTHER -> HandlerErrorTypeInternal

\* the reading of a response that is neither a success nor a still-running
\* nor a timeout reply
ClassifyFailureResponse(wr) ==
    IF wr.panicked THEN ClientResult("TransportError", "", "", "")
    ELSE IF wr.code = statusOperationFailed
    THEN ClientResult("UnsuccessfulOperationError", HeaderGet(wr.sent, headerOperationState),
                      "", ParseFailure(wr.body))
    ELSE ClientResult("HandlerError", StatusHandlerErrorType(wr.code), "", ParseFailure(wr.body))

\* StartOperation, step 5: the reading of the response of a start request
ClassifyStartResponse(wr) ==
    IF ~wr.panicked /\ wr.code = StatusOK THEN ClientResult("Successful", "", "", "")
    ELSE IF ~wr.panicked /\ wr.code = StatusCreated
    THEN IF Len(wr.body) = 9 /\ wr.body[2] = "id" /\ wr.body[8] = OperationStateRunning
         THEN ClientResult("Pending", "", wr.body[4], "")
         ELSE ClientResult("ProtocolError", "", "", "")
    ELSE ClassifyFailureResponse(wr)

\* the reading of the response of a get-result request
ClassifyGetResultResponse(wr) ==
    IF ~wr.panicked /\ wr.code = StatusOK THEN ClientResult("Successful", "", "", "")
    ELSE IF ~wr.panicked /\ wr.code = statusOperationRunning
    THEN ClientResult("ErrOperationStillRunning", "", "", "")
    ELSE IF ~wr.panicked /\ wr.code = StatusRequestTimeout
    THEN ClientResult("DeadlineExceeded", "", "", "")
    ELSE ClassifyFailureResponse(wr)

\* the state of a client call: st is "Idle", "Polling", "Waiting" (a request
\* is out), or, once the call has returned, "Done", "StillRunning", "Timeout"
\* or "Error"; now is the time since the call began; budget is the wait of the
\* caller, 0 for a peek; wait is the wait of the request that is out; sent
\* counts the requests; blocks and final are timesToBlock and the result of
\* the user handler
NoClient ==
    [st |-> "Idle", call |-> "", now |-> 0, deadline |-> NoDeadline, budget |-> 0,
     wait |-> 0, sent |-> 0, blocks |-> 0, final |-> NoOutcome,
     handle |-> [operation |-> <<>>, id |-> <<>>],
     requestID |-> "", header |-> "", result |-> NoResult]

(***************************************************************************)
(* The state machine.  pc: "idle" (no request), "running" (the user        *)
(* handler was called and has not returned), "done" (the response of req   *)
(* is complete in w).  lastCancel remembers the last earlier cancel request *)
(* whose user handler returned no error, and its response.                 *)
(***************************************************************************)
\* the requests in flight: net/http runs the handler of each request in a
\* goroutine of its own, with the request and the writer of that request
Tasks == 1..MaxInFlight

IdleTask ==
    [pc |-> "idle", req |-> NoRequest, call |-> NoCall, elapsed |-> 0,
     outcome |-> NoOutcome, w |-> NewWriter]

Response(wr) == [code |-> wr.code, header |-> wr.sent, body |-> wr.body,
                 panicked |-> wr.panicked]

NoCancel == [set |-> FALSE, operation |-> <<>>, operationID |-> <<>>,
             response |-> Response(NewWriter), log |-> <<>>]

Init ==
    /\ options \in {NewHTTPHandler([GetResultTimeout |-> t]) : t \in ConfiguredTimeouts}
    /\ pc = "idle"
    /\ req = NoRequest
    /\ call = NoCall
    /\ elapsed = 0
    /\ reqCanceled = FALSE
    /\ outcome = NoOutcome
    /\ w = NewWriter
    /\ lastCancel = NoCancel
    /\ client = NoClient
    /\ tasks = [t \in Tasks |-> IdleTask]

\* a handler runs up to the call of the user handler, or returns early
Enter(r, d) ==
    /\ pc = "idle"
    /\ req' = r
    /\ elapsed' = 0
    /\ reqCanceled' = FALSE
    /\ outcome' = NoOutcome
    /\ IF d.fail # NoError
       THEN /\ pc' = "done"
            /\ call' = NoCall
            /\ w' = FinishRequest(writeFailure(NewWriter, d.fail))
       ELSE /\ pc' = "running"
            /\ call' = d.call
            /\ w' = NewWriter
    /\ UNCHANGED <<options, tasks, lastCancel, client>>

\* the user handler returns out and the handler writes the response
Leave(method, out, wr) ==
    /\ pc = "running"
    /\ call.method = method
    /\ pc' = "done"
    /\ outcome' = out
    /\ w' = FinishRequest(wr)
    /\ UNCHANGED <<options, tasks, req, call, elapsed, reqCanceled, client>>

StartOperationCall ==
    \E r \in StartRequests :
        /\ Route(r) = "startOperation"
        /\ Enter(r, startOperationDecode(r))

StartOperationReturn ==
    \E out \in StartOutcomes :
        /\ Leave("StartOperation", out, startOperationReturn(w, out))
        /\ UNCHANGED lastCancel

GetOperationResultCall ==
    \E r \in GetResultRequests :
        /\ Route(r) = "getOperationResult"
        /\ Enter(r, getOperationResultDecode(r))

GetOperationResultReturn ==
    \E out \in GetResultOutcomes :
        /\ Leave("GetOperationResult", out,
                 getOperationResultReturn(w, call.wait, CtxErr(call, elapsed, reqCanceled), out))
        /\ UNCHANGED lastCancel

GetOperationInfoCall ==
    \E r \in GetInfoRequests :
        /\ Route(r) = "getOperationInfo"
        /\ Enter(r, getOperationInfoDecode(r))

GetOperationInfoReturn ==
    \E out \in GetInfoOutcomes :
        /\ Leave("GetOperationInfo", out, getOperationInfoReturn(w, out))
        /\ UNCHANGED lastCancel

CancelOperationCall ==
    \E r \in CancelRequests :
        /\ Route(r) = "cancelOperation"
        /\ Enter(r, cancelOperationDecode(r))

CancelOperationReturn ==
    \E out \in CancelOutcomes :
        /\ Leave("CancelOperation", out, cancelOperationReturn(w, out))
        /\ UNCHANGED lastCancel

\* the router answers a request whose path is not in canonical form with a
\* redirect to the canonical path; no handler of lines 420-423 runs
RouterRedirect ==
    \E r \in Requests :
        /\ Route(r) = "redirect"
        /\ pc = "idle"
        /\ req' = r
        /\ pc' = "done"
        /\ call' = NoCall
        /\ elapsed' = 0
        /\ reqCanceled' = FALSE
        /\ outcome' = NoOutcome
        /\ w' = FinishRequest(WriteHeader(SetHeader(NewWriter, "Location", cleanPath(r.path)),
                                          StatusMovedPermanently))
        /\ UNCHANGED <<options, tasks, lastCancel, client>>

\* time passes while the user handler runs under a deadline
Tick ==
    /\ pc = "running"
    /\ call.hasDeadline
    /\ elapsed < MaxTicks * TickLength
    /\ elapsed' = elapsed + TickLength
    /\ UNCHANGED <<options, tasks, pc, req, call, reqCanceled, outcome, w, lastCancel, client>>

\* the client goes away while the user handler runs: net/http cancels the
\* request context
CancelRequestContext ==
    /\ pc = "running"
    /\ ~reqCanceled
    /\ reqCanceled' = TRUE
    /\ UNCHANGED <<options, tasks, pc, req, call, elapsed, outcome, w, lastCancel, client>>

\* the server takes the next request
NextRequest ==
    /\ pc = "done"
    /\ pc' = "idle"
    /\ req' = NoRequest
    /\ call' = NoCall
    /\ elapsed' = 0
    /\ reqCanceled' = FALSE
    /\ outcome' = NoOutcome
    /\ w' = NewWriter
    /\ lastCancel' =
          IF call.method = "CancelOperation" /\ outcome.err = NoError
          THEN [set |-> TRUE, operation |-> call.operation,
                operationID |-> call.operationID,
                response |-> Response(w), log |-> w.log]
          ELSE lastCancel
    /\ UNCHANGED <<options, tasks, client>>

Next ==
    \/ StartOperationCall
    \/ StartOperationReturn
    \/ GetOperationResultCall
    \/ GetOperationResultReturn
    \/ GetOperationInfoCall
    \/ GetOperationInfoReturn
    \/ CancelOperationCall
    \/ CancelOperationReturn
    \/ RouterRedirect
    \/ Tick
    \/ CancelRequestContext
    \/ NextRequest

Spec == Init /\ [][Next]_vars

(***************************************************************************)
(* The client's calls.  A request of the client is answered by the         *)
(* handlers above; req, call, elapsed, outcome and w show the request that *)
(* is out or was answered last.  Time passes only while the user handler   *)
(* blocks.                                                                 *)
(***************************************************************************)
ClientOperations == {<<"f", "o", "o">>, <<"f", "/", "o">>}
ClientHandles == {[operation |-> <<"f", "/", "o">>, id |-> <<"a", "/", "s">>]}

\* the requestID option and the Nexus-Request-Id header of a start call
OptionRequestIDs == {"", "direct"}
HeaderRequestIDs == {"", "via header"}

\* the wait of a GetResult call (0: a peek) and the deadline of its context
ClientWaits == {0, 200 * Millisecond, 2500 * Millisecond, 12 * Second}
ClientDeadlines == {NoDeadline, 200 * Millisecond, Second, 3 * Second}

\* asyncWithResultHandler: timesToBlock and resultError
TimesToBlock == (0..MaxBlocks) \cup {Forever}
ResultErrors ==
    {NoError,
     <<UnsuccessfulOperationError(OperationStateFailed, "intentional")>>,
     <<UnsuccessfulOperationError(OperationStateCanceled, "")>>,
     <<HandlerError(HandlerErrorTypeNotFound, Failure("foo"))>>,
     <<ErrOperationStillRunning>>}

\* asyncWithResultHandler.getResult
getResult(resultError) ==
    IF resultError # NoError THEN Failed(resultError)
    ELSE Outcome(NoResponse,
                 EncodableValue({<<headerContentType, "application/octet-stream">>}, <<"body">>),
                 NilOperationInfo, NoError)

\* the path segment of an operation ID a start response carried
OperationIDChars(id) ==
    CASE id = "a/sync" -> <<"a", "/", "s", "y", "n", "c">>
      [] OTHER -> <<>>

\* asyncWithResultHandler.GetOperationResult blocks the request c, the
\* sent-th of the call, until its wait or its context ends
HandlerBlocks(c, sent, timesToBlock) == c.wait # 0 /\ sent <= timesToBlock

BlockDuration(c) ==
    LET d == IF c.hasDeadline THEN Min(c.wait, c.timeout) ELSE c.wait
    IN IF d > 0 THEN d ELSE 0

\* the least time between the sending of a request and the arrival of its
\* response
RoundTrip == 50 * Millisecond

\* requests that take no time beyond the time the user handler blocks them
HandlerDurationWithoutRoundTrip ==
    IF call # NoCall /\ HandlerBlocks(call, client.sent, client.blocks)
    THEN BlockDuration(call) ELSE 0

\* the time the request that is out takes: the time the user handler blocks
\* it, and never less than RoundTrip
HandlerDuration ==
    IF call # NoCall /\ HandlerBlocks(call, client.sent, client.blocks)
         /\ BlockDuration(call) > RoundTrip
    THEN BlockDuration(call) ELSE RoundTrip

HandlerOutcome ==
    IF HandlerBlocks(call, client.sent, client.blocks)
    THEN Failed(<<ErrOperationStillRunning>>) ELSE client.final

\* the server takes the request r of the client
ClientRequest(r, d) ==
    /\ req' = r
    /\ elapsed' = 0
    /\ reqCanceled' = FALSE
    /\ outcome' = NoOutcome
    /\ IF d.fail # NoError
       THEN /\ pc' = "done"
            /\ call' = NoCall
            /\ w' = FinishRequest(writeFailure(NewWriter, d.fail))
       ELSE /\ pc' = "running"
            /\ call' = d.call
            /\ w' = NewWriter

\* Client.StartOperation: one start request and the reading of its response
ClientStartOperation ==
    \E name \in ClientOperations, rid \in OptionRequestIDs, hdr \in HeaderRequestIDs,
       out \in StartOutcomes :
        LET r == Request("POST", OperationPath(name), <<>>, EffectiveRequestID(rid, hdr))
            d == startOperationDecode(r)
            wr == IF d.fail # NoError THEN FinishRequest(writeFailure(NewWriter, d.fail))
                  ELSE FinishRequest(startOperationReturn(NewWriter, out))
            result == ClassifyStartResponse(wr)
        IN /\ client.st = "Idle"
           /\ Route(r) = "startOperation"
           /\ req' = r
           /\ pc' = "done"
           /\ call' = d.call
           /\ elapsed' = 0
           /\ reqCanceled' = FALSE
           /\ outcome' = IF d.fail # NoError THEN NoOutcome ELSE out
           /\ w' = wr
           /\ client' = [NoClient EXCEPT
                            !.st = IF result.kind \in {"Successful", "Pending"}
                                   THEN "Done" ELSE "Error",
                            !.call = "StartOperation",
                            !.sent = 1,
                            !.handle = [operation |-> name, id |-> OperationIDChars(result.id)],
                            !.requestID = rid,
                            !.header = hdr,
                            !.result = result]
           /\ UNCHANGED <<options, tasks, lastCancel>>

\* the wait budget of the caller that is left
BudgetLeft(c) == c.budget - c.now

\* the context of the call has expired
ContextExpired(c) == c.deadline # NoDeadline /\ c.now >= c.deadline

\* the wait of every request capped by getResultMaxTimeout and by the time
\* to the deadline of the context
CappedClientWait(c) ==
    IF c.deadline = NoDeadline THEN Min(BudgetLeft(c), getResultMaxTimeout)
    ELSE Min(Min(c.deadline - c.now, BudgetLeft(c)), getResultMaxTimeout)

\* the wait of the next request of a long poll: what is left of the budget,
\* and no more than the time to the deadline of the context plus the padding
ClientWait(c) ==
    IF c.deadline = NoDeadline THEN BudgetLeft(c)
    ELSE Min(BudgetLeft(c), c.deadline - c.now + getResultContextPadding)

\* a long poll that reports a used-up wait as a timeout
WaitUsedUpAsTimeout(c) ==
    [c EXCEPT !.st = "Timeout", !.result = ClientResult("DeadlineExceeded", "", "", "")]

\* the return of a long poll whose wait is used up
WaitUsedUp(c) ==
    [c EXCEPT !.st = "StillRunning",
              !.result = ClientResult("ErrOperationStillRunning", "", "", "")]

\* the return of a call whose context has expired
DeadlineExceeded(c) ==
    [c EXCEPT !.st = "Timeout", !.result = ClientResult("DeadlineExceeded", "", "", "")]

\* the state a call returns in with the result
ReturnState(result) ==
    CASE result.kind = "Successful" -> "Done"
      [] result.kind = "ErrOperationStillRunning" -> "StillRunning"
      [] result.kind = "DeadlineExceeded" -> "Timeout"
      [] OTHER -> "Error"

\* Handle.GetResult is called on a handle of NewHandle
HandleGetResult ==
    \E h \in ClientHandles, wait \in ClientWaits, deadline \in ClientDeadlines,
       n \in TimesToBlock, e \in ResultErrors :
        /\ client.st = "Idle"
        /\ client' = [NoClient EXCEPT !.st = "Polling", !.call = "GetResult",
                                      !.deadline = deadline, !.budget = wait,
                                      !.blocks = n, !.final = getResult(e), !.handle = h]
        /\ UNCHANGED <<options, tasks, pc, req, call, elapsed, reqCanceled, outcome, w, lastCancel>>

\* Client.ExecuteOperation on an operation that starts asynchronously: the
\* start request, then GetResult on the handle with the time to the deadline
\* plus the padding as wait
ClientExecuteOperation ==
    \E name \in ClientOperations, id \in AsyncOperationIDs,
       deadline \in ClientDeadlines \ {NoDeadline}, n \in TimesToBlock, e \in ResultErrors :
        LET r == Request("POST", OperationPath(name), <<>>, EffectiveRequestID("", ""))
            d == startOperationDecode(r)
            out == Outcome(OperationResponseAsync(id), NoValue, NilOperationInfo, NoError)
            wr == FinishRequest(startOperationReturn(NewWriter, out))
            result == ClassifyStartResponse(wr)
        IN /\ client.st = "Idle"
           /\ Route(r) = "startOperation"
           /\ d.fail = NoError
           /\ result.kind = "Pending"
           /\ req' = r
           /\ pc' = "done"
           /\ call' = d.call
           /\ elapsed' = 0
           /\ reqCanceled' = FALSE
           /\ outcome' = out
           /\ w' = wr
           /\ client' = [NoClient EXCEPT
                            !.st = "Polling", !.call = "ExecuteOperation",
                            !.deadline = deadline,
                            !.budget = deadline + getResultContextPadding,
                            !.blocks = n, !.final = getResult(e),
                            !.handle = [operation |-> name, id |-> OperationIDChars(result.id)]]
           /\ UNCHANGED <<options, tasks, lastCancel>>

\* an iteration of GetResult begins: the call returns when the context has
\* expired or the wait is used up, else the next request goes out
ClientSend ==
    /\ client.st = "Polling"
    /\ IF client.budget > 0 /\ ContextExpired(client)
       THEN /\ client' = DeadlineExceeded(client)
            /\ UNCHANGED <<pc, req, call, elapsed, reqCanceled, outcome, w>>
       ELSE IF client.budget > 0 /\ ClientWait(client) <= 0
       THEN /\ client' = WaitUsedUp(client)
            /\ UNCHANGED <<pc, req, call, elapsed, reqCanceled, outcome, w>>
       ELSE \E wait \in {IF client.budget > 0 THEN ClientWait(client) ELSE 0} :
            \E r \in {Request("GET", ResultPath(client.handle),
                               IF wait > 0 THEN FormatWait(wait) ELSE <<>>, "")} :
            \E d \in {getOperationResultDecode(r)} :
               /\ Route(r) = "getOperationResult"
               /\ ClientRequest(r, d)
               /\ client' = [client EXCEPT !.st = "Waiting", !.wait = wait,
                                            !.sent = client.sent + 1]
    /\ UNCHANGED <<options, tasks, lastCancel>>

\* the response of the request that is out, as the handlers write it when
\* the user handler returns after HandlerDuration
ClientResponse(canceled) ==
    IF call = NoCall THEN w
    ELSE FinishRequest(getOperationResultReturn(
             NewWriter, call.wait, CtxErr(call, elapsed', canceled), HandlerOutcome))

\* the response arrives: a timeout or still-running reply to a long poll
\* leads to the next iteration, any other response ends the call
ClientReceive ==
    /\ client.st = "Waiting"
    /\ client.deadline = NoDeadline \/ client.now + HandlerDuration <= client.deadline
    /\ pc' = "done"
    /\ elapsed' = HandlerDuration
    /\ outcome' = IF call = NoCall THEN outcome ELSE HandlerOutcome
    /\ \E wr \in {ClientResponse(FALSE)} :
       \E result \in {ClassifyGetResultResponse(wr)} :
       \E again \in {/\ client.budget > 0
                      /\ result.kind \in {"DeadlineExceeded", "ErrOperationStillRunning"}} :
          /\ w' = wr
          /\ client' = [client EXCEPT
                           !.now = client.now + HandlerDuration,
                           !.st = IF again THEN "Polling" ELSE ReturnState(result),
                           !.result = IF again THEN NoResult ELSE result]
    /\ UNCHANGED <<options, tasks, req, call, reqCanceled, lastCancel>>

\* the deadline of the context comes while the request is out: the client
\* aborts the request and the call returns
ClientDeadline ==
    /\ client.st = "Waiting"
    /\ call # NoCall
    /\ client.deadline # NoDeadline
    /\ client.now + HandlerDuration >= client.deadline
    /\ pc' = "done"
    /\ elapsed' = client.deadline - client.now
    /\ reqCanceled' = TRUE
    /\ outcome' = HandlerOutcome
    /\ w' = ClientResponse(TRUE)
    /\ client' = [DeadlineExceeded(client) EXCEPT !.now = client.deadline]
    /\ UNCHANGED <<options, tasks, req, call, lastCancel>>

\* the call has returned; the client is free for the next call
ClientReturn ==
    /\ client.st \in {"Done", "StillRunning", "Timeout", "Error"}
    /\ client' = NoClient
    /\ pc' = "idle"
    /\ req' = NoRequest
    /\ call' = NoCall
    /\ elapsed' = 0
    /\ reqCanceled' = FALSE
    /\ outcome' = NoOutcome
    /\ w' = NewWriter
    /\ UNCHANGED <<options, tasks, lastCancel>>

ClientNext ==
    \/ ClientStartOperation
    \/ HandleGetResult
    \/ ClientExecuteOperation
    \/ ClientSend
    \/ ClientReceive
    \/ ClientDeadline
    \/ ClientReturn

SpecClient == Init /\ [][ClientNext]_vars

\* the client under a scheduler that lets the calling task go on, and with
\* requests that return: an iteration that can begin does begin, and a request
\* that is out is answered or is aborted at the deadline of the context
SpecClientLive ==
    /\ Init
    /\ [][ClientNext]_vars
    /\ WF_vars(ClientSend)
    /\ WF_vars(ClientReceive)
    /\ WF_vars(ClientDeadline)

(***************************************************************************)
(* Requests handled at the same time.  tasks[t] is the request that task t *)
(* handles: its position (pc as above), the request, what was handed to    *)
(* the user handler, the time since the request came in, what the user     *)
(* handler returned, and the writer of the request.  The tasks share the   *)
(* httpHandler: its options.  No client goes away while it waits.          *)
(***************************************************************************)
ConcurrentHandle == [operation |-> <<"f", "/", "o">>, id |-> <<"i", "d">>]

ConcurrentRequests ==
    {Request("POST", OperationPath(ConcurrentHandle.operation), <<>>, "rid"),
     Request("GET", HandlePath(ConcurrentHandle.operation, ConcurrentHandle.id), <<>>, ""),
     Request("GET", ResultPath(ConcurrentHandle), <<>>, ""),
     Request("GET", ResultPath(ConcurrentHandle), <<"5", "0", "0", "m", "s">>, ""),
     Request("GET", ResultPath(ConcurrentHandle), <<"1", "x">>, ""),
     Request("POST", CancelPath(ConcurrentHandle), <<>>, "")}

\* what the user handler returns to the method
ConcurrentOutcomes(method) ==
    CASE method = "StartOperation" ->
            {Failed(<<UnsuccessfulOperationError(OperationStateFailed, "intentional")>>),
             Outcome(OperationResponseAsync("a/sync"), NoValue, NilOperationInfo, NoError)}
       [] method = "GetOperationResult" ->
            {Failed(<<ErrOperationStillRunning>>),
             Outcome(NoResponse, EncodableValue({<<headerContentType, contentTypeJSON>>},
                                                <<"success">>),
                     NilOperationInfo, NoError)}
       [] method = "GetOperationInfo" ->
            {Failed(<<HandlerError(HandlerErrorTypeNotFound, Failure("not found"))>>),
             Outcome(NoResponse, NoValue, OperationInfo("id", OperationStateRunning), NoError)}
       [] method = "CancelOperation" ->
            {Failed(<<PlainError("intentional")>>), NoOutcome}

\* the handler the router calls for the request, up to the call of the user
\* handler
HandlerCall(r) ==
    CASE Route(r) = "startOperation" -> startOperationDecode(r)
      [] Route(r) = "getOperationInfo" -> getOperationInfoDecode(r)
      [] Route(r) = "getOperationResult" -> getOperationResultDecode(r)
      [] Route(r) = "cancelOperation" -> cancelOperationDecode(r)

\* a handler that answers on the writer of the request of the first task
HandlerReturnOnSharedWriter(wr, c, now, out) ==
    LET shared == tasks[1].w
    IN CASE c.method = "StartOperation" -> startOperationReturn(shared, out)
         [] c.method = "GetOperationInfo" -> getOperationInfoReturn(shared, out)
         [] c.method = "GetOperationResult" ->
              getOperationResultReturn(shared, c.wait, CtxErr(c, now, FALSE), out)
         [] c.method = "CancelOperation" -> cancelOperationReturn(shared, out)

\* the handler from the return of the user handler on, writing to the
\* writer wr of its request
HandlerReturn(wr, c, now, out) ==
    CASE c.method = "StartOperation" -> startOperationReturn(wr, out)
      [] c.method = "GetOperationInfo" -> getOperationInfoReturn(wr, out)
      [] c.method = "GetOperationResult" ->
           getOperationResultReturn(wr, c.wait, CtxErr(c, now, FALSE), out)
      [] c.method = "CancelOperation" -> cancelOperationReturn(wr, out)

\* the steps of the task t leave the variables of the one-request model alone
TaskStep(t, task) ==
    /\ tasks' = [tasks EXCEPT ![t] = task]
    /\ UNCHANGED <<options, pc, req, call, elapsed, reqCanceled, outcome, w, lastCancel, client>>

\* a request comes in and its handler runs up to the call of the user handler
TaskEnter(t) ==
    \E r \in ConcurrentRequests :
    \E d \in {HandlerCall(r)} :
        /\ tasks[t].pc = "idle"
        /\ TaskStep(t, IF d.fail # NoError
                       THEN [IdleTask EXCEPT !.pc = "done", !.req = r,
                                             !.w = FinishRequest(writeFailure(NewWriter, d.fail))]
                       ELSE [IdleTask EXCEPT !.pc = "running", !.req = r, !.call = d.call])

\* time passes for the request of t, up to the deadline of its context
TaskTick(t) ==
    /\ tasks[t].pc = "running"
    /\ tasks[t].call.hasDeadline
    /\ tasks[t].elapsed < MaxTicks * TickLength
    /\ tasks[t].elapsed < tasks[t].call.timeout
    /\ TaskStep(t, [tasks[t] EXCEPT !.elapsed = @ + TickLength])

\* the user handler returns to the handler of t, which writes the response
TaskReturn(t) ==
    /\ tasks[t].pc = "running"
    /\ \E out \in ConcurrentOutcomes(tasks[t].call.method) :
          TaskStep(t, [tasks[t] EXCEPT
                           !.pc = "done",
                           !.outcome = out,
                           !.w = FinishRequest(HandlerReturn(tasks[t].w, tasks[t].call,
                                                             tasks[t].elapsed, out))])

\* the request of t is over
TaskNext(t) ==
    /\ tasks[t].pc = "done"
    /\ TaskStep(t, IdleTask)

ConcurrentNext ==
    \E t \in Tasks :
        \/ TaskEnter(t)
        \/ TaskTick(t)
        \/ TaskReturn(t)
        \/ TaskNext(t)

SpecConcurrent == Init /\ [][ConcurrentNext]_vars

(***************************************************************************)
(* Properties.                                                             *)
(***************************************************************************)
Done == pc = "done"

\* the user handler was called for the request and has returned
Returned(method) == Done /\ call.method = method

\* the error has a chain without an UnsuccessfulOperationError and without a
\* HandlerError
IsOtherError(err) ==
    /\ err # NoError
    /\ ErrorsAs(err, "UnsuccessfulOperationError") = 0
    /\ ErrorsAs(err, "HandlerError") = 0

\* the user handler of a start or get-result request returned a *Stream
ReturnedStream ==
    \/ /\ Returned("StartOperation") /\ outcome.err = NoError
       /\ ~outcome.response.async /\ outcome.response.value.isStream
    \/ /\ Returned("GetOperationResult") /\ outcome.err = NoError
       /\ outcome.value.isStream

TheStream ==
    IF call.method = "StartOperation" THEN outcome.response.value.stream
    ELSE outcome.value.stream

\* C1: a successful handler value that is a Stream is answered 200 with the
\* stream's headers and the stream's bytes as body, and handling it never faults.
C1_StreamPassedThrough ==
    ReturnedStream =>
        /\ ~w.panicked
        /\ w.code = 200
        /\ TheStream.header \subseteq w.sent
        /\ w.body = TheStream.body

\* the context of the user handler has ended when the handler returned
ContextEnded == CtxErr(call, elapsed, reqCanceled)

\* the deadline of the derived context has passed when the handler returned
DeadlinePassed == call.hasDeadline /\ elapsed >= call.timeout

ReturnedStillRunning ==
    Returned("GetOperationResult") /\ ErrorsIs(outcome.err, ErrOperationStillRunning)

\* C2 as claimed: whenever the get-result user handler returns
\* ErrOperationStillRunning, the response status is 412, for any wait and any
\* state of the context.
C2_StillRunningIs412 ==
    ReturnedStillRunning => w.code = statusOperationRunning

\* C2: when the get-result user handler returns ErrOperationStillRunning, the
\* response status is 412, except that it is 408 when wait > 0 and the context
\* of the handler has ended (deadline passed or request context cancelled).
C2_StillRunningIs412UnlessContextEnded ==
    ReturnedStillRunning =>
        IF call.wait > 0 /\ ContextEnded
        THEN w.code = StatusRequestTimeout
        ELSE w.code = statusOperationRunning

C2_Witness ==
    /\ ReturnedStillRunning
    /\ call.wait > 0
    /\ elapsed > 0
    /\ ~ContextEnded
    /\ w.code = statusOperationRunning

\* C3 as claimed: a get-result request with wait > 0 whose derived context has
\* expired when the user handler returns is answered 408, whatever the handler
\* returned.
C3_ExpiredIs408 ==
    (Returned("GetOperationResult") /\ call.wait > 0 /\ DeadlinePassed)
        => w.code = StatusRequestTimeout

\* C3: a get-result request with wait > 0 whose derived context has expired
\* when the user handler returns an error is answered 408 with no body,
\* whatever that error is.
C3_ExpiredErrorIs408 ==
    (Returned("GetOperationResult") /\ call.wait > 0 /\ DeadlinePassed
        /\ outcome.err # NoError)
        => (w.code = StatusRequestTimeout /\ w.body = <<>> /\ w.failed = <<>>)

C3_Witness ==
    /\ Returned("GetOperationResult")
    /\ call.wait > 0
    /\ DeadlinePassed
    /\ ~reqCanceled
    /\ outcome.err = <<HandlerError(HandlerErrorTypeNotFound, Failure("foo"))>>
    /\ w.code = StatusRequestTimeout

\* the get-result user handler is running, or has returned, for a long poll
LongPollCalled ==
    pc \in {"running", "done"} /\ call.method = "GetOperationResult" /\ call.wait > 0

\* C4 as claimed: for wait > 0 the deadline of the handler's context is
\* wait + getResultContextPadding after the request starts, and the context
\* never expires before the wait has elapsed.
C4_DeadlineIsWaitPlusPadding ==
    LongPollCalled =>
        /\ call.hasDeadline
        /\ call.timeout = call.wait + getResultContextPadding
        /\ (elapsed < call.wait => ~DeadlinePassed)

\* C4: for wait > 0 the deadline of the handler's context is GetResultTimeout
\* after the request starts, whatever the wait; the context does not expire
\* before the wait has elapsed when the wait is at most GetResultTimeout.
C4_DeadlineIsGetResultTimeout ==
    LongPollCalled =>
        /\ call.hasDeadline
        /\ call.timeout = options.GetResultTimeout
        /\ ((call.wait <= options.GetResultTimeout /\ elapsed < call.wait) => ~DeadlinePassed)

C4_Witness ==
    /\ LongPollCalled
    /\ call.wait = 500 * Millisecond
    /\ options.GetResultTimeout = Second
    /\ elapsed = Second
    /\ DeadlinePassed

\* the error handed to the failure writer (the first, were there several)
FailureWritten == Len(w.failed) >= 1
WrittenError == w.failed[1]

\* the first HandlerError of the written error, when its chain has no
\* UnsuccessfulOperationError
WrittenHandlerError == WrittenError[ErrorsAs(WrittenError, "HandlerError")]

HandlerErrorWritten ==
    /\ Done
    /\ FailureWritten
    /\ ErrorsAs(WrittenError, "UnsuccessfulOperationError") = 0
    /\ ErrorsAs(WrittenError, "HandlerError") # 0

\* the table of claim C5
KindStatus(type) ==
    CASE type = "BAD_REQUEST" -> 400
      [] type = "UNAUTHENTICATED" -> 401
      [] type = "UNAUTHORIZED" -> 403
      [] type = "NOT_FOUND" -> 404
      [] type = "INTERNAL" -> 500
      [] type = "" -> 500
      [] type = "NOT_IMPLEMENTED" -> 501
      [] type = "APPLICATION_ERROR" -> 520
      [] type = "APPLICATION_TIMEOUT" -> 521
      [] OTHER -> 0

\* C5: a HandlerError handed to the failure writer is answered with the status
\* of its kind (400, 401, 403, 404, 500 also for an unset kind, 501, 520, 521),
\* and with the JSON of its Failure as body, or no body when it has none.
C5_HandlerErrorStatusByKind ==
    (HandlerErrorWritten /\ KindStatus(WrittenHandlerError.type) # 0) =>
        /\ w.code = KindStatus(WrittenHandlerError.type)
        /\ w.body = IF WrittenHandlerError.failure.isNil THEN <<>>
                    ELSE <<"{", "message", ":", WrittenHandlerError.failure.message, "}">>

C5_Witness ==
    /\ HandlerErrorWritten
    /\ WrittenError = <<HandlerError("UNAUTHENTICATED", Failure("foo"))>>
    /\ w.code = 401
    /\ w.body = <<"{", "message", ":", "foo", "}">>

\* the first UnsuccessfulOperationError of the written error
WrittenUnsuccessful == WrittenError[ErrorsAs(WrittenError, "UnsuccessfulOperationError")]

UnsuccessfulWritten ==
    /\ Done
    /\ FailureWritten
    /\ ErrorsAs(WrittenError, "UnsuccessfulOperationError") # 0

\* C6: an UnsuccessfulOperationError with state failed or canceled handed to
\* the failure writer is answered 424 with Nexus-Operation-State set to that
\* state, Content-Type application/json and the JSON of its Failure as body.
C6_UnsuccessfulIs424 ==
    (UnsuccessfulWritten /\ WrittenUnsuccessful.state \in {"failed", "canceled"}) =>
        /\ w.code = statusOperationFailed
        /\ HeaderGet(w.sent, "Nexus-Operation-State") = WrittenUnsuccessful.state
        /\ HeaderGet(w.sent, "Content-Type") = "application/json"
        /\ w.body = <<"{", "message", ":", WrittenUnsuccessful.failure.message, "}">>

C6_Witness ==
    /\ UnsuccessfulWritten
    /\ call.method = "StartOperation"
    /\ outcome.err = <<UnsuccessfulOperationError("canceled", "intentional")>>
    /\ w.code = statusOperationFailed
    /\ HeaderGet(w.sent, "Nexus-Operation-State") = "canceled"

\* C7: an UnsuccessfulOperationError whose state is neither failed nor
\* canceled is answered 500, never 424, with no Nexus-Operation-State header
\* and no body.
C7_UnexpectedStateIs500 ==
    (UnsuccessfulWritten /\ WrittenUnsuccessful.state \notin {"failed", "canceled"}) =>
        /\ w.code = 500
        /\ w.code # statusOperationFailed
        /\ \A p \in w.sent : p[1] # "Nexus-Operation-State"
        /\ w.body = <<>>

C7_Witness ==
    /\ UnsuccessfulWritten
    /\ WrittenUnsuccessful.state = "running"
    /\ w.code = 500
    /\ w.sent = {}

\* the response is the generic failure response, and no message of the chain
\* of err is in its body or its headers
GenericResponse(err) ==
    /\ w.code = 500
    /\ HeaderGet(w.sent, "Content-Type") = "application/json"
    /\ w.body = <<"{", "message", ":", "internal server error", "}">>
    /\ \A i \in 1..Len(err) :
          /\ \A j \in 1..Len(w.body) : w.body[j] # err[i].message
          /\ \A p \in w.sent : p[2] # err[i].message

HandlerReturnedOther == Done /\ call.method # "" /\ IsOtherError(outcome.err)

\* C8 as claimed: every error a user handler returns that is neither an
\* UnsuccessfulOperationError nor a HandlerError is answered with the generic
\* failure response.
C8_OtherErrorIsGeneric500 ==
    HandlerReturnedOther => GenericResponse(outcome.err)

\* the get-result handler answers the error itself, 408 or 412, and does not
\* hand it to the failure writer
AnsweredByGetResult ==
    /\ call.method = "GetOperationResult"
    /\ \/ (call.wait > 0 /\ ContextEnded)
       \/ ErrorsIs(outcome.err, ErrOperationStillRunning)

\* C8: every error a user handler returns that is neither an
\* UnsuccessfulOperationError nor a HandlerError, and that get-result does not
\* answer 408 (context ended) or 412 (still running), is handed to the failure
\* writer and answered with the generic failure response.
C8_OtherErrorWrittenIsGeneric500 ==
    (HandlerReturnedOther /\ ~AnsweredByGetResult) =>
        (w.failed = <<outcome.err>> /\ GenericResponse(outcome.err))

C8_Witness ==
    /\ HandlerReturnedOther
    /\ call.method = "GetOperationResult"
    /\ outcome.err = <<PlainError("boom")>>
    /\ w.failed = <<outcome.err>>
    /\ w.code = 500

ReturnedAsync ==
    Returned("StartOperation") /\ outcome.err = NoError /\ outcome.response.async

\* C9: a start request whose user handler returns Async{operationID} is
\* answered 201 with Content-Type application/json and the JSON of
\* OperationInfo {id: operationID, state: running} as body.
C9_AsyncIs201Running ==
    ReturnedAsync =>
        /\ w.code = 201
        /\ HeaderGet(w.sent, "Content-Type") = "application/json"
        /\ w.body = <<"{", "id", ":", outcome.response.operationID, ",",
                      "state", ":", "running", "}">>

C9_Witness ==
    /\ ReturnedAsync
    /\ outcome.response.operationID = "a/sync"
    /\ w.code = 201

CancelAccepted == Returned("CancelOperation") /\ outcome.err = NoError

\* an earlier cancel of the same (name, id) was accepted
RepeatedCancel ==
    /\ lastCancel.set
    /\ lastCancel.operation = call.operation
    /\ lastCancel.operationID = call.operationID

\* C10: a cancel request whose user handler returns no error is answered 202
\* with an empty body, and a cancel of a (name, id) cancelled before is
\* answered by the same calls on the writer as the earlier one.
C10_CancelIs202Always ==
    CancelAccepted =>
        /\ w.code = 202
        /\ w.body = <<>>
        /\ RepeatedCancel =>
              (Response(w) = lastCancel.response /\ w.log = lastCancel.log)

C10_Witness ==
    /\ CancelAccepted
    /\ RepeatedCancel
    /\ call.operationID = <<"a", "/", "s">>
    /\ w.code = 202

\* a get-result request has been taken by the server
GetResultRequested == pc # "idle" /\ Route(req) = "getOperationResult"

\* the response is the failure writer's 400 for an invalid wait, and the user
\* handler was not called
InvalidWaitRejected ==
    /\ Done
    /\ call = NoCall
    /\ outcome = NoOutcome
    /\ w.code = StatusBadRequest
    /\ HeaderGet(w.sent, headerContentType) = contentTypeJSON
    /\ w.body = <<"{", "message", ":", "invalid wait query parameter", "}">>

\* C11 as claimed: a get-result request whose wait query parameter is present
\* but is not a valid duration literal is answered 400 with a Failure JSON
\* body, and the user handler is never invoked for it.
C11_InvalidWaitIs400 ==
    (GetResultRequested /\ "wait" \in req.query /\ ~ParseDuration(req.wait).ok)
        => InvalidWaitRejected

\* C11: a get-result request whose wait query parameter has a non-empty value
\* that is not a valid duration literal is answered 400 with a Failure JSON
\* body, and the user handler is never invoked for it; a wait parameter with
\* an empty value is handled as an absent one.
C11_NonEmptyInvalidWaitIs400 ==
    /\ (GetResultRequested /\ req.wait # <<>> /\ ~ParseDuration(req.wait).ok)
          => InvalidWaitRejected
    /\ (GetResultRequested /\ "wait" \in req.query /\ req.wait = <<>>)
          => (call.method = "GetOperationResult" /\ call.wait = 0 /\ ~call.hasDeadline)

C11_Witness ==
    /\ GetResultRequested
    /\ req.wait = <<"1", "x">>
    /\ InvalidWaitRejected

\* the request is for the handle h: its path is the client's path of one of
\* the four endpoints for the name and the ID of h
RequestFor(h) ==
    \/ req.method = "POST" /\ req.path = OperationPath(h.operation)
    \/ req.method = "GET" /\ req.path = HandlePath(h.operation, h.id)
    \/ req.method = "GET" /\ req.path = ResultPath(h)
    \/ req.method = "POST" /\ req.path = CancelPath(h)

\* the user handler was called with the name and the ID of h
HandedOver(h) ==
    /\ call.method # ""
    /\ call.operation = h.operation
    /\ call.operationID = IF call.method = "StartOperation" THEN <<>> ELSE h.id

\* the wait parameter of the request does not end the request early
WaitAccepted == req.wait = <<>> \/ ParseDuration(req.wait).ok

\* C12: for every operation name and operation ID, those with '/' included,
\* the request a client builds by percent-encoding them into path segments
\* makes the server call the user handler with exactly the original name and
\* ID, on all four endpoints.
C12_NamesRoundTrip ==
    \A h \in Handles :
        (pc # "idle" /\ RequestFor(h) /\ WaitAccepted) => HandedOver(h)

\* a name or an ID that is a dot segment of a path
IsDotSegment(name) == name = <<".">> \/ name = <<".", ".">>

\* the round trip of C12 for the names and IDs that are not dot segments
NamesRoundTripButDotSegments ==
    \A h \in Handles :
        (pc # "idle" /\ RequestFor(h) /\ WaitAccepted
            /\ ~IsDotSegment(h.operation) /\ ~IsDotSegment(h.id)) => HandedOver(h)

\* a '/' in a name and in an ID went through get-result unchanged
SlashNamesHandedOver ==
    /\ call.method = "GetOperationResult"
    /\ call.operation = <<"f", "/", "o">>
    /\ call.operationID = <<"a", "/", "s">>

\* a response was sent and its status is not a 2xx
NonSuccessResponse ==
    Done /\ ~w.panicked /\ (w.code < 200 \/ w.code >= 300)

\* the bytes are the JSON of a Failure
IsFailureJSON(bytes) ==
    /\ Len(bytes) = 5
    /\ bytes[1] = "{" /\ bytes[2] = "message" /\ bytes[3] = ":" /\ bytes[5] = "}"

\* C13: on all four endpoints and for every outcome, a response whose status
\* is not a 2xx either has an empty body, or has Content-Type application/json
\* and a body that is the JSON of a Failure.
C13_NonSuccessBodyIsFailureJSON ==
    NonSuccessResponse =>
        \/ w.body = <<>>
        \/ /\ HeaderGet(w.sent, headerContentType) = contentTypeJSON
           /\ IsFailureJSON(w.body)

C13_Witness ==
    /\ NonSuccessResponse
    /\ Returned("CancelOperation")
    /\ w.code = StatusNotFound
    /\ HeaderGet(w.sent, headerContentType) = contentTypeJSON
    /\ w.body = <<"{", "message", ":", "foo", "}">>

\* the bytes hold an operation info
HasOperationInfo(bytes) == \E i \in 1..Len(bytes) : bytes[i] \in {"id", "state"}

\* C18: when the get-info user handler returns an OperationInfo and no error,
\* the response is 200 with Content-Type application/json and the JSON of
\* exactly that info as body; when it returns an error, the response is the
\* failure writer's response for that error and no OperationInfo is written.
C18_InfoIs200JSON ==
    /\ (Returned("GetOperationInfo") /\ outcome.err = NoError /\ ~outcome.info.isNil)
          => /\ w.code = StatusOK
             /\ HeaderGet(w.sent, headerContentType) = contentTypeJSON
             /\ w.body = <<"{", "id", ":", outcome.info.id, ",",
                           "state", ":", outcome.info.state, "}">>
    /\ (Returned("GetOperationInfo") /\ outcome.err # NoError)
          => /\ w = FinishRequest(writeFailure(NewWriter, outcome.err))
             /\ ~HasOperationInfo(w.body)

C18_Witness ==
    /\ Returned("GetOperationInfo")
    /\ outcome.info = OperationInfo("a/sync", OperationStateCanceled)
    /\ outcome.err = NoError
    /\ w.code = StatusOK
    /\ w.body = <<"{", "id", ":", "a/sync", ",", "state", ":", OperationStateCanceled, "}">>

\* the operation state a HandlerError kind stands for
KindOperationState(type) ==
    IF type = "OPERATION_CANCELED" THEN OperationStateCanceled ELSE OperationStateFailed

\* C19: a HandlerError of kind OPERATION_CANCELED or OPERATION_FAILED handed to
\* the failure writer is answered 424 with the header Nexus-Operation-State
\* set to canceled or failed respectively.
C19_CanceledAndFailedAre424 ==
    (HandlerErrorWritten /\ WrittenHandlerError.type \in {"OPERATION_CANCELED", "OPERATION_FAILED"})
        => /\ w.code = statusOperationFailed
           /\ HeaderGet(w.sent, headerOperationState) = KindOperationState(WrittenHandlerError.type)

\* the OPERATION_CANCELED half of C19
CanceledKindIs424 ==
    (HandlerErrorWritten /\ WrittenHandlerError.type = "OPERATION_CANCELED")
        => /\ w.code = statusOperationFailed
           /\ HeaderGet(w.sent, headerOperationState) = OperationStateCanceled

\* what the failure writer makes of the kind OPERATION_FAILED
FailedKindIs500 ==
    (HandlerErrorWritten /\ WrittenHandlerError.type = "OPERATION_FAILED")
        => /\ w.code = StatusInternalServerError
           /\ HeaderGet(w.sent, headerOperationState) = ""

\* the get-result user handler is running or has returned
GetResultCalled == pc \in {"running", "done"} /\ call.method = "GetOperationResult"

\* a request that is not a long poll is never answered 408
NoTimeoutWithoutLongPoll ==
    (GetResultCalled /\ Done /\ call.wait <= 0) => w.code # StatusRequestTimeout

\* C20 as claimed: the get-result user handler receives a context with the
\* deadline GetResultTimeout exactly when the parsed wait is greater than
\* zero; for an absent, zero or negative wait it receives the request context
\* with no added deadline, and the response is never 408.
C20_DeadlineIffWaitPositive ==
    /\ GetResultCalled =>
          /\ call.hasDeadline <=> call.wait > 0
          /\ call.hasDeadline => call.timeout = options.GetResultTimeout
    /\ NoTimeoutWithoutLongPoll

\* C20: the get-result user handler receives a context with the deadline
\* GetResultTimeout exactly when the wait query parameter has a non-empty
\* value (one that parses: also 0s and a negative wait); for an absent or empty
\* wait parameter it receives the request context with no added deadline; for
\* an absent, zero or negative wait the response is never 408.
C20_DeadlineIffWaitGiven ==
    /\ GetResultCalled =>
          /\ call.hasDeadline <=> req.wait # <<>>
          /\ call.hasDeadline => call.timeout = options.GetResultTimeout
    /\ NoTimeoutWithoutLongPoll

C20_Witness ==
    /\ GetResultCalled
    /\ Done
    /\ req.wait = <<"0", "s">>
    /\ call.wait = 0
    /\ call.hasDeadline
    /\ DeadlinePassed
    /\ ErrorsIs(outcome.err, ErrOperationStillRunning)
    /\ w.code = statusOperationRunning

\* the client call has returned
ClientReturned(name) ==
    client.call = name /\ client.st \in {"Done", "StillRunning", "Timeout", "Error"}

\* the user handler returned an UnsuccessfulOperationError, failed or canceled
HandlerReturnedUnsuccessful ==
    /\ Len(outcome.err) = 1
    /\ outcome.err[1].kind = "UnsuccessfulOperationError"
    /\ outcome.err[1].state \in {OperationStateFailed, OperationStateCanceled}

\* C14: when the user handler of a start request or of a get-result peek
\* returns an UnsuccessfulOperationError with state failed or canceled, the
\* client call returns an UnsuccessfulOperationError with exactly that state.
C14_UnsuccessfulStateSurvives ==
    ((ClientReturned("StartOperation") \/ (ClientReturned("GetResult") /\ client.budget = 0))
        /\ HandlerReturnedUnsuccessful)
        => /\ client.result.kind = "UnsuccessfulOperationError"
           /\ client.result.state = outcome.err[1].state

C14_Witness ==
    /\ ClientReturned("GetResult")
    /\ client.budget = 0
    /\ outcome.err = <<UnsuccessfulOperationError(OperationStateCanceled, "")>>
    /\ w.code = statusOperationFailed
    /\ client.result.kind = "UnsuccessfulOperationError"
    /\ client.result.state = OperationStateCanceled

\* a long poll of the client
LongPoll == client.call \in {"GetResult", "ExecuteOperation"} /\ client.budget > 0

\* the long poll has returned while the operation was still running
LongPollGaveUp == LongPoll /\ client.st \in {"StillRunning", "Timeout"}

\* the wait budget of the long poll ends before, after the deadline of its context
BudgetEndsFirst == client.deadline = NoDeadline \/ client.budget < client.deadline
DeadlineComesFirst == client.deadline # NoDeadline /\ client.deadline < client.budget

\* C15: a client GetResult with wait > 0 on an operation that stays running
\* returns ErrOperationStillRunning when the wait of the caller runs out
\* before the deadline of the context, and a deadline-exceeded error when the
\* deadline comes first; the one is never returned in the case of the other.
C15_StillRunningOrDeadline ==
    /\ (LongPoll /\ client.st = "StillRunning")
          => /\ client.result.kind = "ErrOperationStillRunning"
             /\ client.now >= client.budget
             /\ ~DeadlineComesFirst
    /\ (LongPoll /\ client.st = "Timeout")
          => /\ client.result.kind = "DeadlineExceeded"
             /\ client.deadline # NoDeadline /\ client.now >= client.deadline
             /\ ~BudgetEndsFirst
    /\ (LongPoll /\ client.blocks = Forever
            /\ client.st \in {"Done", "StillRunning", "Timeout", "Error"})
          => /\ BudgetEndsFirst => client.st = "StillRunning"
             /\ DeadlineComesFirst => client.st = "Timeout"

C15_Witness ==
    /\ LongPollGaveUp
    /\ client.st = "StillRunning"
    /\ client.budget = 2500 * Millisecond
    /\ client.deadline = 3 * Second
    /\ client.sent = 3
    /\ client.now = client.budget

\* a request of a long poll is out
LongPollRequestOut == LongPoll /\ client.st = "Waiting"

\* the time to the deadline of the context, the wait budget that is left
TimeToDeadline == client.deadline - client.now
WaitLeft == client.budget - client.now

\* C16 as claimed: in every iteration of a long poll the wait sent is positive
\* and at most getResultMaxTimeout: it is min(remaining, getResultMaxTimeout),
\* remaining being the smaller of the time to the context deadline and the
\* wait budget of the caller.
C16_WaitIsCappedRemaining ==
    LongPollRequestOut =>
        /\ client.wait > 0
        /\ client.wait <= getResultMaxTimeout
        /\ client.wait =
              Min(IF client.deadline = NoDeadline THEN WaitLeft
                  ELSE Min(TimeToDeadline, WaitLeft), getResultMaxTimeout)

\* C16: in every iteration of a long poll the wait sent is positive and is the
\* smaller of the wait budget the caller has left and the time to the context
\* deadline plus getResultContextPadding; the user handler observes that same
\* wait.  getResultMaxTimeout does not cap it.
C16_WaitIsPaddedRemaining ==
    LongPollRequestOut =>
        /\ client.wait > 0
        /\ call.wait = client.wait
        /\ client.wait =
              IF client.deadline = NoDeadline THEN WaitLeft
              ELSE Min(WaitLeft, TimeToDeadline + getResultContextPadding)

C16_Witness ==
    /\ LongPollRequestOut
    /\ client.call = "ExecuteOperation"
    /\ client.sent = 2
    /\ client.deadline = 3 * Second
    /\ options.GetResultTimeout = Second
    /\ call.wait = client.deadline + getResultContextPadding - options.GetResultTimeout

\* C17: the request ID the user handler of a start request observes is the
\* first non-empty of the requestID option of the client, the header
\* Nexus-Request-Id of the client, and a freshly generated UUID; the option
\* wins over the header.
C17_RequestIDPrecedence ==
    (ClientReturned("StartOperation") /\ call # NoCall) =>
        /\ client.requestID # "" => call.requestID = client.requestID
        /\ (client.requestID = "" /\ client.header # "") => call.requestID = client.header
        /\ (client.requestID = "" /\ client.header = "") => call.requestID = NewUUID

C17_Witness ==
    /\ ClientReturned("StartOperation")
    /\ client.requestID = "direct"
    /\ client.header = "via header"
    /\ call.requestID = "direct"

(***************************************************************************)
(* The order in which the failure writer tells errors apart.               *)
(***************************************************************************)
\* the response is the one of the UnsuccessfulOperationError e
WrittenAsUnsuccessful(e) ==
    IF e.state \in {"failed", "canceled"}
    THEN /\ w.code = 424
         /\ HeaderGet(w.sent, "Nexus-Operation-State") = e.state
         /\ w.body = <<"{", "message", ":", e.failure.message, "}">>
    ELSE /\ w.code = 500
         /\ w.sent = {}
         /\ w.body = <<>>

\* the response is the one of the HandlerError e
WrittenAsHandlerError(e) ==
    /\ KindStatus(e.type) # 0 => w.code = KindStatus(e.type)
    /\ w.code = 424 <=> e.type = "OPERATION_CANCELED"
    /\ w.body = IF e.failure.isNil THEN <<>>
                ELSE <<"{", "message", ":", e.failure.message, "}">>

WrittenAsGeneric ==
    /\ w.code = 500
    /\ w.body = <<"{", "message", ":", "internal server error", "}">>

ChainHasUnsuccessful == ErrorsAs(WrittenError, "UnsuccessfulOperationError") # 0
ChainHasHandlerError == ErrorsAs(WrittenError, "HandlerError") # 0

\* C21: the failure writer looks through the chain of the error for an
\* UnsuccessfulOperationError first, then for a HandlerError: an error whose
\* chain holds an UnsuccessfulOperationError is written as that one, also when
\* the chain holds a HandlerError as well; without one, an error whose chain
\* holds a HandlerError is written as that one; an error is written as the
\* generic 500 when its chain holds neither, and only then.
C21_UnsuccessfulThenHandlerErrorThenOther ==
    (Done /\ FailureWritten) =>
        /\ ChainHasUnsuccessful => WrittenAsUnsuccessful(WrittenUnsuccessful)
        /\ (~ChainHasUnsuccessful /\ ChainHasHandlerError)
              => WrittenAsHandlerError(WrittenHandlerError)
        /\ WrittenAsGeneric <=> (~ChainHasUnsuccessful /\ ~ChainHasHandlerError)

\* a HandlerError joined with an UnsuccessfulOperationError behind it
C21_Witness ==
    /\ Done
    /\ FailureWritten
    /\ WrittenError = <<HandlerError("NOT_FOUND", Failure("foo")),
                        UnsuccessfulOperationError("canceled", "intentional")>>
    /\ w.code = 424
    /\ HeaderGet(w.sent, "Nexus-Operation-State") = "canceled"
    /\ w.body = <<"{", "message", ":", "intentional", "}">>

(***************************************************************************)
(* A codec that fails.                                                     *)
(***************************************************************************)
\* the user handler of a start or get-result request returned a value for
\* the codec, and no error
ReturnedValue ==
    \/ /\ Returned("StartOperation") /\ outcome.err = NoError
       /\ ~outcome.response.async /\ ~outcome.response.value.isStream
    \/ /\ Returned("GetOperationResult") /\ outcome.err = NoError
       /\ ~outcome.value.isStream

TheValue ==
    IF call.method = "StartOperation" THEN outcome.response.value ELSE outcome.value

CodecFailedOther == ReturnedValue /\ IsOtherError(TheValue.serErr)

\* C22: when the codec fails to serialize a successful handler value with an
\* error that is neither an UnsuccessfulOperationError nor a HandlerError, the
\* response is the generic failure response and nothing else: status 500, the
\* header Content-Type application/json alone, the body
\* {"message":"internal server error"}; no header and no byte of what the codec
\* had encoded is written, and no message of the codec's error is in it.
C22_CodecFailureIsGeneric500 ==
    CodecFailedOther =>
        /\ w.code = 500
        /\ w.sent = {<<"Content-Type", "application/json">>}
        /\ w.header = w.sent
        /\ w.body = <<"{", "message", ":", "internal server error", "}">>
        /\ \A p \in TheValue.stream.header : p \notin w.sent
        /\ \A i \in 1..Len(TheValue.stream.body) :
              \A j \in 1..Len(w.body) : w.body[j] # TheValue.stream.body[i]
        /\ \A i \in 1..Len(TheValue.serErr) :
              \A j \in 1..Len(w.body) : w.body[j] # TheValue.serErr[i].message

\* the codec gave up after it had encoded a header and some bytes
C22_Witness ==
    /\ CodecFailedOther
    /\ call.method = "GetOperationResult"
    /\ TheValue.stream.body = <<"partial">>
    /\ TheValue.serErr = <<PlainError("unsupported type")>>
    /\ w.failed = <<Wrap("failed to serialize handler result", TheValue.serErr)>>
    /\ w.code = 500

(***************************************************************************)
(* The order of the writes of the failure writer.                          *)
(***************************************************************************)
\* the positions in the log of the writer of the calls of one kind
LogPositions(op) == {i \in 1..Len(w.log) : w.log[i].op = op}

\* the failure writer ran, on a writer on which nothing was written before
FailureWriterRan == Done /\ FailureWritten

ContentTypeSetBefore(i) ==
    \E j \in 1..(i - 1) :
        /\ w.log[j].op = "Set"
        /\ w.log[j].key = "Content-Type"
        /\ w.log[j].val = "application/json"

\* C23: in every run of the failure writer the headers (Content-Type,
\* Nexus-Operation-State) are set first, then the status line is written, then
\* the body: the status line is written exactly once, no header is set after
\* it, no body is written before it, and a non-empty body is written only
\* after Content-Type application/json was set.
C23_HeadersThenStatusThenBody ==
    FailureWriterRan =>
        /\ Cardinality(LogPositions("WriteHeader")) = 1
        /\ \A i \in LogPositions("Set") :
              /\ w.log[i].key \in {"Content-Type", "Nexus-Operation-State"}
              /\ \A j \in LogPositions("WriteHeader") : i < j
        /\ \A i \in LogPositions("Write") :
              /\ \A j \in LogPositions("WriteHeader") : j < i
              /\ w.log[i].bytes # <<>> => ContentTypeSetBefore(i)

\* both headers, the status line and the body, in this order
C23_Witness ==
    /\ FailureWriterRan
    /\ Len(w.log) = 4
    /\ w.log[1].op = "Set" /\ w.log[1].key = "Nexus-Operation-State"
    /\ w.log[2].op = "Set" /\ w.log[2].key = "Content-Type"
    /\ w.log[3].op = "WriteHeader" /\ w.log[3].code = 424
    /\ w.log[4].op = "Write"
    /\ w.log[4].bytes = <<"{", "message", ":", "intentional", "}">>

(***************************************************************************)
(* Termination of the long poll.                                           *)
(***************************************************************************)
LongPollPolling == LongPoll /\ client.st = "Polling"

LongPollReturned == client.st \in {"Done", "StillRunning", "Timeout", "Error"}

\* the budget left does not grow while a call goes on
BudgetNeverGrows ==
    [][(LongPoll /\ client'.call = client.call) => BudgetLeft(client') <= BudgetLeft(client)]_vars

\* a timeout or still-running reply leads to an iteration with less budget
BudgetShrinksWithEveryReply ==
    [][(LongPoll /\ client.st = "Waiting" /\ client'.st = "Polling")
          => BudgetLeft(client') < BudgetLeft(client)]_vars

\* once a call has returned it sends no request
NoRequestAfterReturn ==
    [][LongPollReturned => (client' = NoClient /\ pc' = "idle")]_vars

\* C24: every long poll of the client terminates when each of its requests
\* returns: the budget left never grows from one iteration to the next and is
\* less after every still-running reply, so the call leaves Polling after
\* finitely many iterations for one of Done, StillRunning, Timeout and Error,
\* and sends no request after that.
C24_LongPollTerminates ==
    /\ BudgetNeverGrows
    /\ BudgetShrinksWithEveryReply
    /\ NoRequestAfterReturn
    /\ LongPollPolling ~> LongPollReturned

\* a long poll against an operation that stays running has returned after
\* several still-running replies that came at once
C24_Witness ==
    /\ LongPoll
    /\ client.call = "GetResult"
    /\ client.deadline = NoDeadline
    /\ client.blocks = 0
    /\ client.final = Failed(<<ErrOperationStillRunning>>)
    /\ client.sent >= 3
    /\ client.st = "StillRunning"

(***************************************************************************)
(* Requests handled at the same time do not meet.                          *)
(***************************************************************************)
\* the response to the request of a task when the handler has nothing else
\* to do: the request decoded and answered from a fresh writer, with what
\* the user handler returned to the task
ResponseAlone(task) ==
    LET r == task.req
        d == CASE r.method = "POST" /\ Len(RouteElems(r.path)) = 1 -> startOperationDecode(r)
               [] r.method = "GET" /\ Len(RouteElems(r.path)) = 2 -> getOperationInfoDecode(r)
               [] r.method = "GET" /\ Len(RouteElems(r.path)) = 3 -> getOperationResultDecode(r)
               [] r.method = "POST" /\ Len(RouteElems(r.path)) = 3 -> cancelOperationDecode(r)
        c == d.call
        out == task.outcome
        wr == IF d.fail # NoError THEN writeFailure(NewWriter, d.fail)
              ELSE CASE c.method = "StartOperation" -> startOperationReturn(NewWriter, out)
                     [] c.method = "GetOperationInfo" -> getOperationInfoReturn(NewWriter, out)
                     [] c.method = "GetOperationResult" ->
                          getOperationResultReturn(NewWriter, c.wait,
                                                   CtxErr(c, task.elapsed, FALSE), out)
                     [] c.method = "CancelOperation" -> cancelOperationReturn(NewWriter, out)
    IN Response(FinishRequest(wr))

OptionsNeverWritten == [][options' = options]_vars

\* a step changes the request of one task at most
TasksChangeAlone ==
    [][\A t, u \in Tasks : (t # u /\ tasks'[t] # tasks[t]) => tasks'[u] = tasks[u]]_vars

AnsweredAsAlone ==
    [](\A t \in Tasks : tasks[t].pc = "done" => Response(tasks[t].w) = ResponseAlone(tasks[t]))

\* C25: for every interleaving of requests handled at the same time, the
\* options of the handler (user handler, codec, GetResultTimeout) are never
\* written after NewHTTPHandler returned, no step of one request changes
\* anything of another, and the response to each request is the one it gets
\* when it is handled alone with the same user-handler outcome.
C25_RequestsShareNothing ==
    /\ OptionsNeverWritten
    /\ TasksChangeAlone
    /\ AnsweredAsAlone

\* a start request was answered while a long poll that came in before it is
\* still with the user handler
C25_Witness ==
    /\ tasks[1].pc = "running"
    /\ tasks[1].call.method = "GetOperationResult"
    /\ tasks[1].elapsed = TickLength
    /\ tasks[2].pc = "done"
    /\ tasks[2].call.method = "StartOperation"
    /\ tasks[2].w.code = 424

(***************************************************************************)
(* Cancellation of the request context reaches the user handler.           *)
(***************************************************************************)
UserMethods == {"StartOperation", "GetOperationResult", "GetOperationInfo", "CancelOperation"}

\* the request context was cancelled while the user handler runs
CancelledWhileRunning == pc = "running" /\ call.method \in UserMethods /\ reqCanceled

\* the handler of a long poll returned an error after the request context
\* was cancelled
LongPollCancelled ==
    /\ Returned("GetOperationResult")
    /\ call.wait > 0
    /\ reqCanceled
    /\ outcome.err # NoError

\* C26: in each of the four methods, once the request context is cancelled
\* while the user handler runs, the context of the handler reports an error
\* too; for a long poll, whose handler runs under the derived timeout
\* context, this shows in the response: an error of the handler is answered
\* 408 even though the deadline has not passed.
C26_HandlerContextFollowsRequestContext ==
    /\ CancelledWhileRunning => CtxErr(call, elapsed, reqCanceled)
    /\ LongPollCancelled => w.code = StatusRequestTimeout

C26_Witness ==
    /\ LongPollCancelled
    /\ ~DeadlinePassed
    /\ outcome.err = <<HandlerError(HandlerErrorTypeNotFound, Failure("foo"))>>
    /\ w.code = StatusRequestTimeout
====
